---- MODULE Spec2Model ----
(***************************************************************************)
(* A model of src/src/archiver_zip.c, the read-only ZIP archiver of        *)
(* PhysicsFS: the central-directory loader, the hash index and directory   *)
(* tree, the lazy resolver, and the seekable decrypting / inflating read   *)
(* stream.                                                                 *)
(*                                                                         *)
(* Pointers are entry numbers (NULL is 0, the archive's embedded root      *)
(* entry is ROOT), C strings are sequences of one-character strings, and   *)
(* the byte source is a sparse image: a function from some positions to    *)
(* bytes, a filler byte elsewhere, and a length.                           *)
(***************************************************************************)
EXTENDS Integers, Sequences, FiniteSets, TLC

(***************************************************************************)
(* Integer widths.  The checker's integers are 32-bit signed, so a 32-bit  *)
(* unsigned word is kept as two 16-bit halves <<lo, hi>>, and a 64-bit     *)
(* size or offset as <<q, r>>, standing for q * 2^30 + r with r < 2^30.    *)
(***************************************************************************)
U8  == 256
U16 == 65536
B30 == 1073741824

RECURSIVE XorBits(_, _)
XorBits(a, b) ==
  IF a = 0 THEN b
  ELSE IF b = 0 THEN a
  ELSE (((a % 2) + (b % 2)) % 2) + (2 * XorBits(a \div 2, b \div 2))

RECURSIVE AndBits(_, _)
AndBits(a, b) ==
  IF a = 0 \/ b = 0 THEN 0
  ELSE ((a % 2) * (b % 2)) + (2 * AndBits(a \div 2, b \div 2))

\* The operations on four bits, tabulated, and from them on any width.
Xor4 == [a \in 0..15 |-> [b \in 0..15 |-> XorBits(a, b)]]
And4 == [a \in 0..15 |-> [b \in 0..15 |-> AndBits(a, b)]]

RECURSIVE BitXor(_, _)
BitXor(a, b) ==
  IF a = 0 THEN b
  ELSE IF b = 0 THEN a
  ELSE Xor4[a % 16][b % 16] + (16 * BitXor(a \div 16, b \div 16))

RECURSIVE BitAnd(_, _)
BitAnd(a, b) ==
  IF a = 0 \/ b = 0 THEN 0
  ELSE And4[a % 16][b % 16] + (16 * BitAnd(a \div 16, b \div 16))

BitOr(a, b) == a + b - BitAnd(a, b)

Min(a, b) == IF a < b THEN a ELSE b

\* Let(e, LAMBDA x : body) is body with x naming the value of e.
Let(e, Op(_)) == Op(e)

\* 32-bit words as <<lo, hi>>.
W(lo, hi) == <<lo, hi>>
WXor(a, b) == <<BitXor(a[1], b[1]), BitXor(a[2], b[2])>>
WShr1(a) == <<(a[1] \div 2) + ((a[2] % 2) * 32768), a[2] \div 2>>
WShr8(a) == <<(a[1] \div U8) + ((a[2] % U8) * U8), a[2] \div U8>>
WAddSmall(a, n) ==
  LET lo == a[1] + n
  IN  <<lo % U16, (a[2] + (lo \div U16)) % U16>>
\* a * c mod 2^32, c given by its halves c0 (low) and c1 (high).
WMul(a, c0, c1) ==
  LET a00 == a[1] % U8
      a01 == a[1] \div U8
      p0  == a00 * c0
      p1  == a01 * c0
  IN
  Let(p0 + ((p1 % U8) * U8), LAMBDA low :
  LET carry == (low \div U16) + (p1 \div U8)
      x1  == (a[1] * c1) % U16
      x2  == (((a[2] % U8) * c0) + ((((a[2] \div U8) * (c0 % U8)) % U8) * U8)) % U16
  IN
      <<low % U16, ((carry % U16) + x1 + x2) % U16>>)

\* 64-bit quantities as <<q, r>> = q * 2^30 + r.
Big(n) == <<n \div B30, n % B30>>
BNorm(q, r) == <<q + (r \div B30), r % B30>>
BAdd(a, b) == BNorm(a[1] + b[1], a[2] + b[2])
BAddI(a, n) == BNorm(a[1], a[2] + n)
BLt(a, b) == (a[1] < b[1]) \/ (a[1] = b[1] /\ a[2] < b[2])
BLe(a, b) == (a = b) \/ BLt(a, b)
\* a - b for b <= a.
BSub(a, b) ==
  IF a[2] >= b[2] THEN <<a[1] - b[1], a[2] - b[2]>>
  ELSE <<a[1] - b[1] - 1, (a[2] + B30) - b[2]>>
BMin(a, b) == IF BLt(a, b) THEN a ELSE b
BZero == <<0, 0>>
\* (PHYSFS_uint32) x: 2^32 = 4 * 2^30.
Trunc32(a) == <<a[1] % 4, a[2]>>
\* a small Big as an integer (only applied to values below 2^30).
BInt(a) == a[2]

(***************************************************************************)
(* "Traditional" PKWARE encryption.                                        *)
(***************************************************************************)
ZIP_GENERAL_BITS_TRADITIONAL_CRYPTO == 1
ZIP_GENERAL_BITS_IGNORE_LOCAL_HEADER == 8
\* 0xEDB88320
CrcPoly == <<33568, 60856>>

RECURSIVE CrcShift(_, _)
CrcShift(xorval, i) ==
  IF i = 0 THEN xorval
  ELSE CrcShift(IF xorval[1] % 2 = 1 THEN WXor(CrcPoly, WShr1(xorval))
                ELSE WShr1(xorval), i - 1)

\* The result of the loop of zip_crypto_crc32 for each value of the low byte.
CrcTable == [b \in 0..255 |-> CrcShift(<<b, 0>>, 8)]

zip_crypto_crc32(crc, val) ==
  WXor(CrcTable[BitXor(crc[1] % U8, val)], WShr8(crc))

\* keys is a triple <<k0, k1, k2>> of 32-bit words; 134775813 = 0x08088405.
zip_update_crypto_keys(keys, val) ==
  Let(zip_crypto_crc32(keys[1], val), LAMBDA k0 :
  Let(WAddSmall(WMul(WAddSmall(keys[2], k0[1] % U8), 33797, 2056), 1), LAMBDA k1 :
  LET k2 == zip_crypto_crc32(keys[3], k1[2] \div U8)
  IN
      <<k0, k1, k2>>))

\* tmp is 16 bits wide; bits 8..15 of tmp * (tmp ^ 1) are returned.
zip_decrypt_byte(keys) ==
  Let(BitOr(keys[3][1], 2), LAMBDA tmp :
  Let(BitXor(tmp, 1), LAMBDA t1 :
  LET lowprod == ((tmp % U8) * t1) + ((((tmp \div U8) * (t1 % U8)) % U8) * U8)
  IN
      (lowprod \div U8) % U8))

\* The initial key vector 305419896, 591751049, 878082192.
InitialKeys == << <<22136, 4660>>, <<26505, 9029>>, <<30864, 13398>> >>

(***************************************************************************)
(* C strings: sequences of one-character strings.                          *)
(***************************************************************************)
Str(s) == s
Fold(c) == IF c = "A" THEN "a" ELSE IF c = "B" THEN "b" ELSE IF c = "L" THEN "l" ELSE c

\* The byte value of a character.
Ord(c) ==
  CASE c = "a" -> 97 [] c = "b" -> 98 [] c = "l" -> 108 [] c = "p" -> 112
    [] c = "w" -> 119 [] c = "x" -> 120 [] c = "A" -> 65 [] c = "B" -> 66
    [] c = "L" -> 76 [] c = "/" -> 47 [] c = "$" -> 36 [] c = "." -> 46
    [] c = "\\" -> 92 [] OTHER -> 63

RECURSIVE strrchr(_, _, _)
\* The greatest index i <= from with s[i] = c, or 0.
strrchr(s, c, from) ==
  IF from = 0 THEN 0
  ELSE IF s[from] = c THEN from
  ELSE strrchr(s, c, from - 1)

\* __PHYSFS_utf8stricmp(a, b) = 0: equal after case folding.
utf8stricmp_eq(a, b) ==
  /\ Len(a) = Len(b)
  /\ \A i \in 1..Len(a) : Fold(a[i]) = Fold(b[i])

RECURSIVE HashSum(_, _)
HashSum(s, i) ==
  IF i > Len(s) THEN 5381
  ELSE ((HashSum(s, i + 1) * 33) + Ord(Fold(s[i]))) % U16

\* __PHYSFS_hashString: a hash of the case-folded name.
PHYSFS_hashString(s) == HashSum(s, 1)

(***************************************************************************)
(* Error codes (the thread's last error).                                  *)
(***************************************************************************)
ERR_OK == "OK"
ERR_IO == "IO"
ERR_CORRUPT == "CORRUPT"
ERR_NOT_FOUND == "NOT_FOUND"
ERR_OUT_OF_MEMORY == "OUT_OF_MEMORY"
ERR_PAST_EOF == "PAST_EOF"
ERR_READ_ONLY == "READ_ONLY"
ERR_BAD_PASSWORD == "BAD_PASSWORD"
ERR_SYMLINK_LOOP == "SYMLINK_LOOP"
ERR_UNSUPPORTED == "UNSUPPORTED"

(***************************************************************************)
(* Entries and the archive.                                                *)
(***************************************************************************)
NULL == 0
ROOT == 1
\* No record (of the byte source, or returned), and no position.
None == [none |-> TRUE]
BNone == <<-1, -1>>

ZIP_UNRESOLVED_FILE == "UNRESOLVED_FILE"
ZIP_UNRESOLVED_SYMLINK == "UNRESOLVED_SYMLINK"
ZIP_RESOLVING == "RESOLVING"
ZIP_RESOLVED == "RESOLVED"
ZIP_DIRECTORY == "DIRECTORY"
ZIP_BROKEN_FILE == "BROKEN_FILE"
ZIP_BROKEN_SYMLINK == "BROKEN_SYMLINK"

COMPMETH_NONE == 0
COMPMETH_DEFLATE == 8
COMPMETH_AES == 99

ZIP_AES_128_BITS == 1
ZIP_AES_192_BITS == 2
ZIP_AES_256_BITS == 3

NoAes == [key_strength |-> 0, salt |-> <<>>, pass_verification |-> 0, compression |-> 0]

\* memset(entry, '\0', sizeof (ZIPentry))
ZeroEntry ==
  [name |-> <<>>, symlink |-> NULL, resolved |-> ZIP_UNRESOLVED_FILE,
   offset |-> BZero, version |-> 0, version_needed |-> 0, general_bits |-> 0,
   compression_method |-> 0, crc |-> <<0, 0>>, compressed_size |-> BZero,
   uncompressed_size |-> BZero, last_mod_time |-> BZero,
   dos_mod_time |-> <<0, 0>>, hashnext |-> NULL, children |-> NULL,
   sibling |-> NULL, aes_data |-> NoAes]

ZIP_IS_AES(entry) == entry.aes_data.key_strength > ZIP_AES_128_BITS

zip_entry_is_tradional_crypto(entry) ==
  BitAnd(entry.general_bits, ZIP_GENERAL_BITS_TRADITIONAL_CRYPTO) # 0

zip_entry_ignore_local_header(entry) ==
  BitAnd(entry.general_bits, ZIP_GENERAL_BITS_IGNORE_LOCAL_HEADER) # 0

(***************************************************************************)
(* The allocator.  mem.live is the set of blocks allocated and not freed,  *)
(* mem.calls counts Malloc calls, and the mem.failAt-th call returns NULL  *)
(* (0: no call fails).                                                     *)
(***************************************************************************)
NewMem(failAt) == [live |-> {}, calls |-> 0, failAt |-> failAt]
MallocFails(mem) == mem.calls + 1 = mem.failAt
Malloc(mem, block) ==
  IF MallocFails(mem) THEN [mem EXCEPT !.calls = @ + 1]
  ELSE [mem EXCEPT !.calls = @ + 1, !.live = @ \cup {block}]
Free(mem, block) == [mem EXCEPT !.live = @ \ {block}]

(***************************************************************************)
(* The hash index.  An archive state `a` is a record                        *)
(*   ent         the entries ever allocated, ent[ROOT] the root,           *)
(*   hash        the bucket heads (NULL before zip_alloc_hashtable),       *)
(*   hashBuckets, has_crypto, zip64, io (the archive's byte source),       *)
(*   mem         the allocator, err the last error code.                   *)
(***************************************************************************)
zip_hash_string(a, s) == PHYSFS_hashString(s) % a.hashBuckets

SetErr(a, code) == [a EXCEPT !.err = code]

RECURSIVE FindInBucket(_, _, _, _, _)
RECURSIVE FindInBucket_drops_found(_, _, _, _, _)
\* FindInBucket as it would be if the entry found were taken off its chain
\* and the bucket's head were not set to it.
FindInBucket_drops_found(a, path, hashval, retval, prev) ==
  IF retval = NULL THEN [a |-> SetErr(a, ERR_NOT_FOUND), retval |-> NULL]
  ELSE IF utf8stricmp_eq(a.ent[retval].name, path)
       THEN IF prev # NULL
            THEN [a |-> [a EXCEPT !.ent[prev].hashnext = a.ent[retval].hashnext,
                                  !.ent[retval].hashnext = a.hash[hashval + 1]],
                  retval |-> retval]
            ELSE [a |-> a, retval |-> retval]
       ELSE FindInBucket_drops_found(a, path, hashval, a.ent[retval].hashnext, retval)

RECURSIVE FindInBucket_leaves_in_place(_, _, _, _, _)
\* FindInBucket as it would be without the move to the front.
FindInBucket_leaves_in_place(a, path, hashval, retval, prev) ==
  IF retval = NULL THEN [a |-> SetErr(a, ERR_NOT_FOUND), retval |-> NULL]
  ELSE IF utf8stricmp_eq(a.ent[retval].name, path)
       THEN [a |-> a, retval |-> retval]
       ELSE FindInBucket_leaves_in_place(a, path, hashval, a.ent[retval].hashnext, retval)

\* The loop of zip_find_entry over one bucket chain, with the move to front.
FindInBucket(a, path, hashval, retval, prev) ==
  IF retval = NULL THEN [a |-> SetErr(a, ERR_NOT_FOUND), retval |-> NULL]
  ELSE IF utf8stricmp_eq(a.ent[retval].name, path)
       THEN IF prev # NULL
            THEN [a |-> [a EXCEPT !.ent[prev].hashnext = a.ent[retval].hashnext,
                                  !.ent[retval].hashnext = a.hash[hashval + 1],
                                  !.hash[hashval + 1] = retval],
                  retval |-> retval]
            ELSE [a |-> a, retval |-> retval]
       ELSE FindInBucket(a, path, hashval, a.ent[retval].hashnext, retval)

zip_find_entry(a, path) ==
  IF path = <<>> THEN [a |-> a, retval |-> ROOT]
  ELSE Let(zip_hash_string(a, path), LAMBDA hashval :
           FindInBucket(a, path, hashval, a.hash[hashval + 1], NULL))

RECURSIVE zip_hash_ancestors(_, _)
RECURSIVE zip_hash_entry(_, _)

\* Returns [a, retval]: the parent directory of `name`, created if missing.
zip_hash_ancestors(a, name) ==
  Let(strrchr(name, "/", Len(name)), LAMBDA sep :
  IF sep = 0 THEN [a |-> a, retval |-> ROOT]
  ELSE
    Let(SubSeq(name, 1, sep - 1), LAMBDA dname :
    Let(zip_find_entry(a, dname), LAMBDA f :
    IF f.retval # NULL
    THEN IF f.a.ent[f.retval].resolved # ZIP_DIRECTORY
         THEN [a |-> SetErr(f.a, ERR_CORRUPT), retval |-> NULL]
         ELSE f
    ELSE
      Let(Len(f.a.ent) + 1, LAMBDA id :
      Let(Malloc(f.a.mem, <<"entry", id>>), LAMBDA m :
      IF MallocFails(f.a.mem)
      THEN [a |-> SetErr([f.a EXCEPT !.mem = m], ERR_OUT_OF_MEMORY), retval |-> NULL]
      ELSE
        LET a1 == [f.a EXCEPT !.mem = m,
                     !.ent = Append(@, [ZeroEntry EXCEPT !.name = dname,
                                                         !.resolved = ZIP_DIRECTORY])]
        IN
        Let(zip_hash_entry(a1, id), LAMBDA h :
        IF ~h.ok
        THEN [a |-> [h.a EXCEPT !.mem = Free(@, <<"entry", id>>)], retval |-> NULL]
        ELSE [a |-> h.a, retval |-> id]))))))

\* zip_hash_entry as it would be if the new entry were made the parent's
\* only child (its sibling link left NULL).
zip_hash_entry_unlinked(a, entry) ==
  Let(zip_hash_ancestors(a, a.ent[entry].name), LAMBDA p :
  IF p.retval = NULL THEN [a |-> p.a, ok |-> FALSE]
  ELSE
    Let(zip_hash_string(p.a, p.a.ent[entry].name), LAMBDA hashval :
    LET parent == p.retval
    IN
       [a |-> [p.a EXCEPT !.ent[entry].hashnext = p.a.hash[hashval + 1],
                          !.hash[hashval + 1] = entry,
                          !.ent[parent].children = entry],
        ok |-> TRUE]))

\* Returns [a, ok].
zip_hash_entry(a, entry) ==
  Let(zip_hash_ancestors(a, a.ent[entry].name), LAMBDA p :
  IF p.retval = NULL THEN [a |-> p.a, ok |-> FALSE]
  ELSE
    Let(zip_hash_string(p.a, p.a.ent[entry].name), LAMBDA hashval :
    Let(p.retval, LAMBDA parent :
       [a |-> [p.a EXCEPT !.ent[entry].hashnext = p.a.hash[hashval + 1],
                          !.hash[hashval + 1] = entry,
                          !.ent[entry].sibling = p.a.ent[parent].children,
                          !.ent[parent].children = entry],
        ok |-> TRUE])))

(***************************************************************************)
(* DOS time stamps.  dos_mod_time is the word <<time, date>>.              *)
(***************************************************************************)
Leaps(n) == ((n \div 4) - (n \div 100)) + (n \div 400)
IsLeap(y) == (y % 4 = 0 /\ y % 100 # 0) \/ (y % 400 = 0)
DaysBeforeMonth(y, m) ==
  <<0, 31, 59, 90, 120, 151, 181, 212, 243, 273, 304, 334>>[m + 1]
    + (IF m >= 2 /\ IsLeap(y) THEN 1 ELSE 0)

\* mktime() of the broken-down fields, out-of-range months and days
\* normalised, taken as UTC; the result is a Big count of seconds.
mktime(tm_year, tm_mon, tm_mday, tm_hour, tm_min, tm_sec) ==
  LET months == ((tm_year + 1900) * 12) + tm_mon
      y == months \div 12
      m == months % 12
      days == (365 * (y - 1970)) + (Leaps(y - 1) - Leaps(1969))
                + DaysBeforeMonth(y, m) + (tm_mday - 1)
  IN
  Let(days * 675, LAMBDA x :
  LET rest == (tm_hour * 3600) + (tm_min * 60) + tm_sec
  IN
      BAddI(<<x \div 8388608, (x % 8388608) * 128>>, rest))

zip_dos_time_to_physfs_time(dostime) ==
  LET dosdate == dostime[2]
      time == dostime[1]
  IN  mktime(((dosdate \div 512) % 128) + 80,
             ((dosdate \div 32) % 16) - 1,
             dosdate % 32,
             (time \div 2048) % 32,
             (time \div 32) % 64,
             (time * 2) % 64)

(***************************************************************************)
(* The central directory.  A record of the byte source's central directory *)
(* is kept parsed:                                                         *)
(*   sig (TRUE: 0x02014b50), version, version_needed, general_bits,        *)
(*   compression_method, dos_mod_time, crc, compressed_size,               *)
(*   uncompressed_size, name (fnamelen = Len(name)), extra (the extra      *)
(*   field's records), extralen, commentlen, starting_disk, xattr (the     *)
(*   high 16 bits of the external attributes), offset, and cut: where the  *)
(*   byte source ends inside the record ("no": it does not).               *)
(***************************************************************************)
ZIP64_EXTENDED_INFO_EXTRA_FIELD_SIG == 1
ZIP_AES_HEADER_EXTRA_FIELD_SIG == 39169
ZIP_AE1_VENDOR_VERSION == 1
ZIP_AE2_VENDOR_VERSION == 2
ZIP_AES_VENDOR_ID == 17729
UNIX_FILETYPE_MASK == 61440
UNIX_FILETYPE_SYMLINK == 40960
\* 0xFFFFFFFF
FFFFFFFF == <<3, 1073741823>>

zip_convert_dos_path(version, path) ==
  IF (version \div U8) % U8 = 0
  THEN [i \in 1..Len(path) |-> IF path[i] = "\\" THEN "/" ELSE path[i]]
  ELSE path

zip_version_does_symlinks(version) ==
  (version \div U8) % U8 \notin {0, 1, 2, 4, 6, 11, 14, 13, 15, 18}

zip_has_symlink_attr(version, uncompressed_size, xattr) ==
  /\ zip_version_does_symlinks(version)
  /\ BLt(BZero, uncompressed_size)
  /\ BitAnd(xattr, UNIX_FILETYPE_MASK) = UNIX_FILETYPE_SYMLINK

RECURSIVE WalkExtra(_, _, _, _)
\* The loop over the extra field of zip_load_entry.  e is the entry being
\* built, with the extra fields "offset" and "starting_disk" of the record;
\* the result is [e, out]: out is "ok", "puked" (the entry is freed) or
\* "bail" (the function returns NULL and the entry stays allocated), and
\* err the error code set, if any.
WalkExtra(e, extra, i, extralen2) ==
  IF extralen2 <= 4 THEN [e |-> e, out |-> "ok", err |-> ERR_OK]
  ELSE IF i > Len(extra) THEN [e |-> e, out |-> "puked", err |-> ERR_IO]
  ELSE
    LET x == extra[i]
    IN
    Let((extralen2 + U16 - ((4 + x.len) % U16)) % U16, LAMBDA rest :
    IF x.sig = ZIP64_EXTENDED_INFO_EXTRA_FIELD_SIG
    THEN
      LET need1 == e.uncompressed_size = FFFFFFFF
      IN
      Let(IF need1 THEN x.len - 8 ELSE x.len, LAMBDA len1 :
      LET k1 == IF need1 THEN 1 ELSE 0
          need2 == e.compressed_size = FFFFFFFF
      IN
      Let(IF need2 THEN len1 - 8 ELSE len1, LAMBDA len2 :
      Let(IF need2 THEN k1 + 1 ELSE k1, LAMBDA k2 :
      LET need3 == e.offset = FFFFFFFF
          len3 == IF need3 THEN len2 - 8 ELSE len2
      IN
      Let(IF need3 THEN k2 + 1 ELSE k2, LAMBDA k3 :
      IF need1 /\ x.len < 8 THEN [e |-> e, out |-> "puked", err |-> ERR_CORRUPT]
      ELSE IF need1 /\ Len(x.vals) < k1 THEN [e |-> e, out |-> "puked", err |-> ERR_IO]
      ELSE IF need2 /\ len1 < 8 THEN [e |-> e, out |-> "puked", err |-> ERR_CORRUPT]
      ELSE IF need2 /\ Len(x.vals) < k2 THEN [e |-> e, out |-> "puked", err |-> ERR_IO]
      ELSE IF need3 /\ len2 < 8 THEN [e |-> e, out |-> "puked", err |-> ERR_CORRUPT]
      ELSE IF need3 /\ Len(x.vals) < k3 THEN [e |-> e, out |-> "puked", err |-> ERR_IO]
      \* starting_disk comes from a 16-bit field: it is never 0xFFFFFFFF.
      ELSE IF len3 # 0 THEN [e |-> e, out |-> "puked", err |-> ERR_CORRUPT]
      ELSE WalkExtra([e EXCEPT
                        !.uncompressed_size = IF need1 THEN x.vals[k1] ELSE @,
                        !.compressed_size = IF need2 THEN x.vals[k2] ELSE @,
                        !.offset = IF need3 THEN x.vals[k3] ELSE @],
                     extra, i + 1, rest)))))
    ELSE IF x.sig = ZIP_AES_HEADER_EXTRA_FIELD_SIG /\ e.compression_method = COMPMETH_AES
    THEN
      IF x.vendor_version # ZIP_AE1_VENDOR_VERSION
                /\ x.vendor_version # ZIP_AE2_VENDOR_VERSION
           THEN [e |-> e, out |-> "bail", err |-> ERR_CORRUPT]
      ELSE IF x.vendor_id # ZIP_AES_VENDOR_ID
           THEN [e |-> e, out |-> "bail", err |-> ERR_CORRUPT]
      ELSE IF x.compression # 0
           THEN [e |-> [e EXCEPT !.aes_data.key_strength = x.key_strength,
                                 !.aes_data.compression = x.compression],
                 out |-> "bail", err |-> ERR_CORRUPT]
      ELSE WalkExtra([e EXCEPT !.aes_data.key_strength = x.key_strength,
                               !.aes_data.compression = x.compression,
                               !.compression_method = COMPMETH_NONE],
                     extra, i + 1, rest)
    ELSE WalkExtra(e, extra, i + 1, rest))

\* Returns [a, retval]: the entry read from record rec, or NULL.
zip_load_entry(a, rec, ofs_fixup) ==
  IF rec.cut = "fixed" THEN [a |-> SetErr(a, ERR_IO), retval |-> NULL]
  ELSE IF ~rec.sig THEN [a |-> SetErr(a, ERR_CORRUPT), retval |-> NULL]
  ELSE
    LET id == Len(a.ent) + 1
        blk == <<"entry", id>>
        m == Malloc(a.mem, blk)
        fnamelen == Len(rec.name)
    IN
    Let(zip_convert_dos_path(rec.version, rec.name), LAMBDA name0 :
    Let(fnamelen > 0 /\ name0[fnamelen] = "/", LAMBDA isdir :
    LET e0 == [ZeroEntry EXCEPT
                 !.version = rec.version,
                 !.version_needed = rec.version_needed,
                 !.general_bits = rec.general_bits,
                 !.compression_method = rec.compression_method,
                 !.dos_mod_time = rec.dos_mod_time,
                 !.last_mod_time = zip_dos_time_to_physfs_time(rec.dos_mod_time),
                 !.crc = rec.crc,
                 !.compressed_size = rec.compressed_size,
                 !.uncompressed_size = rec.uncompressed_size,
                 !.name = IF isdir THEN SubSeq(name0, 1, fnamelen - 1) ELSE name0,
                 !.symlink = NULL,
                 !.resolved =
                    IF isdir THEN ZIP_DIRECTORY
                    ELSE IF zip_has_symlink_attr(rec.version, rec.uncompressed_size, rec.xattr)
                         THEN ZIP_UNRESOLVED_SYMLINK
                         ELSE ZIP_UNRESOLVED_FILE]
    IN
    Let(WalkExtra([e0 EXCEPT !.offset = rec.offset], rec.extra, 1, rec.extralen), LAMBDA w :
    Let([a EXCEPT !.mem = m], LAMBDA a1 :
    LET puked(code) == [a |-> [a1 EXCEPT !.mem = Free(@, blk),
                                         !.err = IF code = ERR_OK THEN @ ELSE code],
                        retval |-> NULL]
    IN
    IF MallocFails(a.mem)
    THEN [a |-> SetErr(a1, ERR_OUT_OF_MEMORY), retval |-> NULL]
    ELSE IF rec.cut = "name" THEN puked(ERR_IO)
    ELSE IF rec.cut = "extra" /\ rec.extralen > 4 THEN puked(ERR_IO)
    ELSE IF w.out = "puked" THEN puked(w.err)
    ELSE IF w.out = "bail" THEN [a |-> SetErr(a1, w.err), retval |-> NULL]
    ELSE IF rec.starting_disk # 0 THEN puked(ERR_CORRUPT)
    ELSE [a |-> [a1 EXCEPT !.ent = Append(@, [w.e EXCEPT !.offset = BAdd(w.e.offset, ofs_fixup)])],
          retval |-> id]))))

NoRecord == [sig |-> FALSE, cut |-> "no"]

RECURSIVE LoadLoop(_, _, _, _, _)
\* The loop of zip_load_entries as it would be if a record whose name is
\* found were always taken to fill in the entry found.
LoadLoop_always_fills(a, cd, data_ofs, i, entry_count) ==
  IF i >= entry_count THEN [a |-> a, ok |-> TRUE]
  ELSE
    Let(zip_load_entry(a, IF i + 1 <= Len(cd) THEN cd[i + 1] ELSE NoRecord, data_ofs), LAMBDA l :
    Let(l.retval, LAMBDA entry :
    IF entry = NULL THEN [a |-> l.a, ok |-> FALSE]
    ELSE
      Let(zip_find_entry(l.a, l.a.ent[entry].name), LAMBDA f :
      Let(f.retval, LAMBDA find :
      Let(f.a.ent[entry], LAMBDA e :
      Let([f.a EXCEPT !.mem = Free(@, <<"entry", entry>>)], LAMBDA freed :
      IF find # NULL
      THEN LoadLoop([freed EXCEPT
                       !.ent[find].offset = e.offset,
                       !.ent[find].version = e.version,
                       !.ent[find].version_needed = e.version_needed,
                       !.ent[find].compression_method = e.compression_method,
                       !.ent[find].crc = e.crc,
                       !.ent[find].compressed_size = e.compressed_size,
                       !.ent[find].uncompressed_size = e.uncompressed_size,
                       !.ent[find].last_mod_time = e.last_mod_time],
                    cd, data_ofs, i + 1, entry_count)
      ELSE
        Let(zip_hash_entry(f.a, entry), LAMBDA h :
        IF ~h.ok
        THEN [a |-> [h.a EXCEPT !.mem = Free(@, <<"entry", entry>>)], ok |-> FALSE]
        ELSE LoadLoop(IF zip_entry_is_tradional_crypto(h.a.ent[entry])
                      THEN [h.a EXCEPT !.has_crypto = TRUE] ELSE h.a,
                      cd, data_ofs, i + 1, entry_count))))))))

\* The for loop of zip_load_entries; returns [a, ok].
LoadLoop(a, cd, data_ofs, i, entry_count) ==
  IF i >= entry_count THEN [a |-> a, ok |-> TRUE]
  ELSE
    Let(zip_load_entry(a, IF i + 1 <= Len(cd) THEN cd[i + 1] ELSE NoRecord, data_ofs), LAMBDA l :
    Let(l.retval, LAMBDA entry :
    IF entry = NULL THEN [a |-> l.a, ok |-> FALSE]
    ELSE
      Let(zip_find_entry(l.a, l.a.ent[entry].name), LAMBDA f :
      Let(f.retval, LAMBDA find :
      Let(f.a.ent[entry], LAMBDA e :
      Let([f.a EXCEPT !.mem = Free(@, <<"entry", entry>>)], LAMBDA freed :
      IF find # NULL
      THEN IF f.a.ent[find].last_mod_time # BZero
           THEN [a |-> SetErr(freed, ERR_CORRUPT), ok |-> FALSE]
           ELSE LoadLoop([freed EXCEPT
                            !.ent[find].offset = e.offset,
                            !.ent[find].version = e.version,
                            !.ent[find].version_needed = e.version_needed,
                            !.ent[find].compression_method = e.compression_method,
                            !.ent[find].crc = e.crc,
                            !.ent[find].compressed_size = e.compressed_size,
                            !.ent[find].uncompressed_size = e.uncompressed_size,
                            !.ent[find].last_mod_time = e.last_mod_time],
                         cd, data_ofs, i + 1, entry_count)
      ELSE
        Let(zip_hash_entry(f.a, entry), LAMBDA h :
        IF ~h.ok
        THEN [a |-> [h.a EXCEPT !.mem = Free(@, <<"entry", entry>>)], ok |-> FALSE]
        ELSE LoadLoop(IF zip_entry_is_tradional_crypto(h.a.ent[entry])
                      THEN [h.a EXCEPT !.has_crypto = TRUE] ELSE h.a,
                      cd, data_ofs, i + 1, entry_count))))))))

(***************************************************************************)
(* The search for the end-of-central-directory record in the bytes of a   *)
(* byte source.  Here a byte source io is [len, marks]: io.len its length  *)
(* and io.marks the set of <<position, byte>> of its bytes that are not 0. *)
(***************************************************************************)
ZIP_END_OF_CENTRAL_DIR_SIG == <<80, 75, 5, 6>>
ZIP_LOCAL_FILE_SIG == <<80, 75, 3, 4>>
BufSize == 256
ScanLimit == 65557

ByteAt(io, p) ==
  IF \E m \in io.marks : m[1] = p
  THEN (CHOOSE m \in io.marks : m[1] = p)[2] ELSE 0

\* io->seek(filepos) and __PHYSFS_readAll of n bytes: the bytes, or None
\* when they are not all there.
ReadAllAt(io, filepos, n) ==
  IF n < 0 \/ filepos + n > io.len THEN None
  ELSE [k \in 1..n |-> ByteAt(io, filepos + k - 1)]

\* The for loop over buf: the i it stops at with the signature found, 0
\* when it is not found.
ScanBuf(buf, maxread) ==
  Let({i \in 1..(maxread - 4) : SubSeq(buf, i + 1, i + 4) = ZIP_END_OF_CENTRAL_DIR_SIG},
      LAMBDA at : IF at = {} THEN 0 ELSE CHOOSE i \in at : \A j \in at : j <= i)

RECURSIVE FindLoop(_, _, _, _, _)
\* The while loop of zip_find_end_of_central_dir; returns [pos, err].
FindLoop(io, filepos, maxread, totalread, extra) ==
  IF ~(totalread < io.len /\ totalread < ScanLimit)
  THEN [pos |-> -1, err |-> ERR_UNSUPPORTED]
  ELSE
    Let(IF totalread # 0 THEN maxread - 4 ELSE maxread, LAMBDA n :
    Let(ReadAllAt(io, filepos, n), LAMBDA got :
    IF got = None THEN [pos |-> -1, err |-> ERR_IO]
    ELSE
      Let(IF totalread # 0 THEN got \o extra ELSE got, LAMBDA buf :
      Let(ScanBuf(buf, maxread), LAMBDA i :
      IF i > 0 THEN [pos |-> filepos + i, err |-> ERR_OK]
      ELSE FindLoop(io, IF filepos - (maxread - 4) < 0 THEN 0 ELSE filepos - (maxread - 4),
                    maxread, totalread + n, SubSeq(buf, 1, 4))))))

\* Returns [pos, err]: pos is the position found or -1.
zip_find_end_of_central_dir(io) ==
  IF BufSize < io.len
  THEN FindLoop(io, io.len - BufSize, BufSize, 0, <<0, 0, 0, 0>>)
  ELSE FindLoop(io, 0, io.len, 0, <<0, 0, 0, 0>>)

\* isZip on the bytes: 1 or 0.
isZip(io) ==
  IF ReadAllAt(io, 0, 4) = None THEN 0
  ELSE IF ReadAllAt(io, 0, 4) = ZIP_LOCAL_FILE_SIG THEN 1
  ELSE IF zip_find_end_of_central_dir(io).pos # -1 THEN 1 ELSE 0

(***************************************************************************)
(* The end-of-central-directory records.  The byte source f gives them     *)
(* parsed: f.eocd is None   (no signature in the scanned tail) or a record *)
(*   pos, sig, disk, disk_start, entries_disk, entries_total, cdsize,      *)
(*   cdofs, commentlen, and z64: None   or the ZIP64 locator               *)
(*   [disk, ofs, total_disks] with f.z64sigs the positions that hold the   *)
(*   ZIP64 end-of-central-directory signature and f.z64rec its fields.     *)
(***************************************************************************)
Z64_MAXBUFLEN == 262144

\* The greatest position of sigs in lo..hi, or BNone.
LastSigIn(sigs, lo, hi) ==
  Let({p \in sigs : BLe(lo, p) /\ BLe(p, hi)}, LAMBDA in :
      IF in = {} THEN BNone
      ELSE CHOOSE p \in in : \A q \in in : BLe(q, p))

\* Returns the position found, or BNone (-1).
zip64_find_end_of_central_dir(f, pos, offset) ==
  IF ~BLe(BAddI(offset, 4), f.len) THEN BNone
  ELSE IF offset \in f.z64sigs THEN offset
  ELSE IF BLt(Big(56), pos) /\ BSub(pos, Big(56)) \in f.z64sigs THEN BSub(pos, Big(56))
  ELSE IF BLt(Big(84), pos) /\ BSub(pos, Big(84)) \in f.z64sigs THEN BSub(pos, Big(84))
  ELSE IF BLt(offset, pos) /\ BLt(Big(4), pos)
       THEN Let(BMin(BSub(pos, offset), Big(Z64_MAXBUFLEN)), LAMBDA len :
                IF BLt(len, Big(4)) THEN BNone
                ELSE LastSigIn(f.z64sigs, BSub(pos, len), BSub(pos, Big(4))))
  ELSE BNone

\* Returns [rc, a, data_start, dir_ofs, entry_count]; rc is 1, 0 or -1.
zip64_parse_end_of_central_dir(a, f, e, epos) ==
  LET fail(code) == [rc |-> 0, a |-> IF code = ERR_OK THEN a ELSE SetErr(a, code),
                     data_start |-> BZero, dir_ofs |-> BZero, entry_count |-> BZero]
      a64 == [a EXCEPT !.zip64 = TRUE]
      fail64(code) == [rc |-> 0, a |-> IF code = ERR_OK THEN a64 ELSE SetErr(a64, code),
                       data_start |-> BZero, dir_ofs |-> BZero, entry_count |-> BZero]
  IN
  IF BLt(epos, Big(20)) THEN fail(ERR_OK)
  ELSE IF e.z64 = None
  THEN [rc |-> -1, a |-> a, data_start |-> BZero, dir_ofs |-> BZero, entry_count |-> BZero]
  ELSE IF e.z64.disk # 0 THEN fail64(ERR_CORRUPT)
  ELSE IF e.z64.total_disks # 1 THEN fail64(ERR_CORRUPT)
  ELSE
    Let(zip64_find_end_of_central_dir(f, BSub(epos, Big(20)), e.z64.ofs), LAMBDA pos :
    LET r == f.z64rec
    IN
    IF pos = BNone THEN fail64(ERR_CORRUPT)
    ELSE IF r.disk # 0 \/ r.disk_start # 0 THEN fail64(ERR_CORRUPT)
    ELSE IF r.entries_disk # r.entries_total THEN fail64(ERR_CORRUPT)
    \* assert(pos >= ui64): a build with assertions aborts here.
    ELSE IF ~BLe(e.z64.ofs, pos) THEN fail64("ASSERT")
    ELSE [rc |-> 1, a |-> a64,
          data_start |-> BSub(pos, e.z64.ofs),
          dir_ofs |-> BAdd(r.cdofs, BSub(pos, e.z64.ofs)),
          entry_count |-> r.entries_total])

\* Returns [ok, a, data_start, dir_ofs, entry_count].
zip_parse_end_of_central_dir(a, f) ==
  LET e == f.eocd
      fail(a1, code) == [ok |-> FALSE, a |-> IF code = ERR_OK THEN a1 ELSE SetErr(a1, code),
                         data_start |-> BZero, dir_ofs |-> BZero, entry_count |-> BZero]
  IN
  IF e = None THEN fail(a, ERR_UNSUPPORTED)
  ELSE IF ~e.sig THEN fail(a, ERR_CORRUPT)
  ELSE
    Let(zip64_parse_end_of_central_dir(a, f, e, e.pos), LAMBDA z :
    Let(BAdd(e.cdofs, e.cdsize), LAMBDA end :
    Let(BSub(e.pos, end), LAMBDA data_start :
    IF z.rc = 0 THEN fail(z.a, ERR_OK)
    ELSE IF z.rc = 1
    THEN [ok |-> TRUE, a |-> z.a, data_start |-> z.data_start,
          dir_ofs |-> z.dir_ofs, entry_count |-> z.entry_count]
    ELSE IF e.disk # 0 THEN fail(a, ERR_CORRUPT)
    ELSE IF e.disk_start # 0 THEN fail(a, ERR_CORRUPT)
    ELSE IF e.entries_disk # e.entries_total THEN fail(a, ERR_CORRUPT)
    ELSE IF BLt(e.pos, end) THEN fail(a, ERR_CORRUPT)
    ELSE IF BAddI(e.pos, 22 + e.commentlen) # f.len THEN fail(a, ERR_CORRUPT)
    ELSE [ok |-> TRUE, a |-> a, data_start |-> data_start,
          dir_ofs |-> BAdd(e.cdofs, data_start), entry_count |-> Big(e.entries_total)])))

\* Returns [ok, a].
zip_alloc_hashtable(a, entry_count) ==
  LET n == BInt(entry_count) \div 5
  IN
  Let(IF n = 0 THEN 1 ELSE n, LAMBDA buckets :
  Let(Malloc(a.mem, <<"hash">>), LAMBDA m :
  IF MallocFails(a.mem)
  THEN [ok |-> FALSE, a |-> SetErr([a EXCEPT !.mem = m, !.hashBuckets = buckets], ERR_OUT_OF_MEMORY)]
  ELSE [ok |-> TRUE, a |-> [a EXCEPT !.mem = m, !.hashBuckets = buckets,
                                     !.hash = [i \in 1..buckets |-> NULL]]]))

\* Returns [ok, a].
zip_load_entries(a, f, data_ofs, central_ofs, entry_count) ==
  LoadLoop(a, IF central_ofs = f.cdpos THEN f.cd ELSE <<>>, data_ofs, 0, BInt(entry_count))

RECURSIVE ChainBlocks(_, _)
\* The blocks freed by walking one bucket chain in ZIP_closeArchive.
ChainBlocks(a, entry) ==
  IF entry = NULL THEN {}
  ELSE {<<"entry", entry>>} \cup ChainBlocks(a, a.ent[entry].hashnext)

\* The archive state after ZIP_closeArchive: info is "closed".
ZIP_closeArchive(a) ==
  LET chains == IF a.hash = <<>> THEN {}
                ELSE UNION {ChainBlocks(a, a.hash[i]) : i \in 1..a.hashBuckets}
  IN  [a EXCEPT !.io = IF @ = "open" THEN "destroyed" ELSE @,
                !.mem.live = @ \ (chains \cup {<<"hash">>, <<"info">>}),
                !.info = "closed"]

NoArchive(failAt) ==
  [info |-> "none", ent |-> <<>>, hash |-> <<>>, hashBuckets |-> 0,
   has_crypto |-> FALSE, zip64 |-> FALSE, io |-> "caller",
   mem |-> NewMem(failAt), err |-> ERR_OK]

\* The archive state after ZIP_openArchive(io, name, forWriting) on the
\* byte source f: info is "open" on success and "none" or "closed" when
\* NULL is returned.  io is "caller" while the caller still owns the byte
\* source, "open" once the archive owns it, "destroyed" after its destroy.
ZIP_openArchive(f, forWriting, failAt) ==
  Let(NoArchive(failAt), LAMBDA a0 :
  IF forWriting THEN SetErr(a0, ERR_READ_ONLY)
  ELSE IF ~f.isZip THEN SetErr(a0, ERR_UNSUPPORTED)
  ELSE IF MallocFails(a0.mem)
  THEN SetErr([a0 EXCEPT !.mem = Malloc(@, <<"info">>)], ERR_OUT_OF_MEMORY)
  ELSE
    LET a1 == [a0 EXCEPT !.mem = Malloc(@, <<"info">>),
                         !.ent = <<[ZeroEntry EXCEPT !.resolved = ZIP_DIRECTORY]>>,
                         !.io = "open", !.info = "building"]
        failed(a) == ZIP_closeArchive([a EXCEPT !.io = "caller"])
    IN
    Let(zip_parse_end_of_central_dir(a1, f), LAMBDA p :
    Let(zip_alloc_hashtable(p.a, p.entry_count), LAMBDA h :
    Let(zip_load_entries(h.a, f, p.data_start, p.dir_ofs, p.entry_count), LAMBDA l :
    IF ~p.ok THEN failed(p.a)
    ELSE IF ~h.ok THEN failed(h.a)
    ELSE IF ~l.ok THEN failed(l.a)
    ELSE [l.a EXCEPT !.info = "open"]))))

(***************************************************************************)
(* The byte source: f.len its length, f.image its first bytes (the byte   *)
(* at position p is image[p + 1]), Filler the bytes after them.            *)
(***************************************************************************)
Filler(pos) == ((pos[2] % 251) + (7 * pos[1])) % U8

FileByte(f, pos) ==
  IF pos[1] = 0 /\ pos[2] < Len(f.image) THEN f.image[pos[2] + 1] ELSE Filler(pos)

\* io->read(io, buf, len) at position pos: the bytes delivered.
IoRead(f, pos, len) ==
  LET n == IF BLe(f.len, pos) THEN 0
           ELSE IF BLt(BSub(f.len, pos), Big(len)) THEN BInt(BSub(f.len, pos)) ELSE len
  IN  [i \in 1..n |-> FileByte(f, BAddI(pos, i - 1))]

(***************************************************************************)
(* The DEFLATE decoder (miniz), as a run-length code: a compressed byte 0  *)
(* ends the stream, 255 is invalid, and any other byte b stands for        *)
(* 1 + b % 2 copies of the byte b \div 2.  A z_stream is                   *)
(*   state (TRUE between inflateInit2 and inflateEnd), in (the input not   *)
(*   yet consumed: next_in, avail_in), run (copies still to write), val,   *)
(*   done (the end of the stream was decoded).                             *)
(***************************************************************************)
Z_OK == 0
Z_STREAM_END == 1
Z_STREAM_ERROR == -2
Z_DATA_ERROR == -3
Z_BUF_ERROR == -5

\* initializeZStream: memset and the allocator hooks.
initializeZStream == [state |-> FALSE, in |-> <<>>, run |-> 0, val |-> 0, done |-> FALSE]

\* inflateInit2(&z, -MAX_WBITS), which allocates the decoder's state.
inflateInit2(z) == [z EXCEPT !.state = TRUE, !.run = 0, !.val = 0, !.done = FALSE]

\* inflateEnd(&z), which frees it.
inflateEnd(z) == [z EXCEPT !.state = FALSE]

RECURSIVE InflateLoop(_, _, _)
InflateLoop(z, out, avail_out) ==
  IF Len(out) = avail_out THEN [z |-> z, out |-> out, rc |-> Z_OK]
  ELSE IF z.run > 0 THEN InflateLoop([z EXCEPT !.run = @ - 1], Append(out, z.val), avail_out)
  ELSE IF z.done THEN [z |-> z, out |-> out, rc |-> Z_STREAM_END]
  ELSE IF z.in = <<>>
       THEN [z |-> z, out |-> out, rc |-> IF out = <<>> THEN Z_BUF_ERROR ELSE Z_OK]
  ELSE LET b == Head(z.in)
           z1 == [z EXCEPT !.in = Tail(@)]
       IN  IF b = 0 THEN [z |-> [z1 EXCEPT !.done = TRUE], out |-> out, rc |-> Z_STREAM_END]
           ELSE IF b = 255 THEN [z |-> z1, out |-> out, rc |-> Z_DATA_ERROR]
           ELSE InflateLoop([z1 EXCEPT !.run = 1 + (b % 2), !.val = b \div 2], out, avail_out)

\* inflate(&z, flush) with avail_out bytes of room: [z, out, rc].
inflate(z, avail_out) ==
  IF ~z.state THEN [z |-> z, out |-> <<>>, rc |-> Z_STREAM_ERROR]
  ELSE InflateLoop(z, <<>>, avail_out)

(***************************************************************************)
(* The lazy resolver.                                                      *)
(***************************************************************************)
Nul == ""

\* The C string held in buf from index p: the characters before the NUL.
RECURSIVE CStr(_, _)
CStr(buf, p) ==
  IF p > Len(buf) \/ buf[p] = Nul THEN <<>>
  ELSE <<buf[p]>> \o CStr(buf, p + 1)

RECURSIVE strchrFrom(_, _, _)
strchrFrom(buf, p, c) ==
  IF p > Len(buf) \/ buf[p] = Nul THEN 0
  ELSE IF buf[p] = c THEN p
  ELSE strchrFrom(buf, p + 1, c)

memmove(buf, dst, src, n) ==
  [i \in 1..Len(buf) |-> IF i >= dst /\ i < dst + n THEN buf[src + (i - dst)] ELSE buf[i]]

RECURSIVE BackToSlash(_, _)
\* while (prevptr != path) { prevptr--; if (*prevptr == '/') { prevptr++; break; } }
BackToSlash(buf, prevptr) ==
  IF prevptr = 1 THEN 1
  ELSE IF buf[prevptr - 1] = "/" THEN prevptr
  ELSE BackToSlash(buf, prevptr - 1)

RECURSIVE ExpandLoop(_, _, _)
\* The while (1) loop of zip_expand_symlink_path on the buffer buf (indices
\* from 1); [buf, hang]: hang when an iteration changes nothing, so the loop
\* never ends.
ExpandLoop(buf, ptr0, prevptr) ==
  Let(strchrFrom(buf, ptr0, "/"), LAMBDA ptr :
  LET at(i) == IF i <= Len(buf) THEN buf[i] ELSE Nul
  IN
  IF ptr = 0 THEN [buf |-> buf, hang |-> FALSE]
  ELSE IF at(ptr + 1) = "."
  THEN
    IF at(ptr + 2) = "/"
    THEN ExpandLoop(memmove(buf, ptr, ptr + 2, Len(CStr(buf, ptr + 2)) + 1), ptr, prevptr)
    ELSE IF at(ptr + 2) = Nul
    THEN ExpandLoop([buf EXCEPT ![ptr] = Nul], ptr, prevptr)
    ELSE IF at(ptr + 2) = "."
    THEN
      Let(at(ptr + 3) = "/", LAMBDA mid :
      Let(IF mid THEN memmove(buf, prevptr, ptr + 4, Len(CStr(buf, ptr + 4)) + 1)
          ELSE buf, LAMBDA buf1 :
      Let(IF mid THEN prevptr ELSE ptr, LAMBDA ptr1 :
      Let(IF mid THEN BackToSlash(buf1, prevptr) ELSE prevptr, LAMBDA prev1 :
      LET end == (IF ptr1 + 3 <= Len(buf1) THEN buf1[ptr1 + 3] ELSE Nul) = Nul
      IN
      Let(IF end THEN [buf1 EXCEPT ![prev1] = Nul] ELSE buf1, LAMBDA buf2 :
      IF buf2 = buf /\ ptr1 = ptr /\ prev1 = prevptr
      THEN [buf |-> buf, hang |-> TRUE]
      ELSE ExpandLoop(buf2, ptr1, prev1))))))
    ELSE [buf |-> buf, hang |-> TRUE]
  ELSE ExpandLoop(buf, ptr + 1, ptr))

zip_expand_symlink_path(buf) == ExpandLoop(buf, 1, 1)

\* The character of a byte value.
Chr(b) ==
  CASE b = 0 -> Nul [] b = 97 -> "a" [] b = 98 -> "b" [] b = 108 -> "l"
    [] b = 112 -> "p" [] b = 119 -> "w" [] b = 120 -> "x" [] b = 65 -> "A"
    [] b = 66 -> "B" [] b = 76 -> "L" [] b = 47 -> "/" [] b = 36 -> "$"
    [] b = 46 -> "." [] b = 92 -> "\\" [] OTHER -> "?"

\* The local file header of the byte source at a position: f.locals gives
\* the headers parsed, with their positions; elsewhere the bytes are no header.
HasLocal(f, pos) == pos[1] = 0 /\ \E i \in 1..Len(f.locals) : f.locals[i].pos = pos[2]
LocalAt(f, pos) == f.locals[CHOOSE i \in 1..Len(f.locals) : f.locals[i].pos = pos[2]].hdr

AesSaltLen(key_strength) ==
  (IF key_strength = ZIP_AES_128_BITS THEN 8 ELSE 0)
    + (IF key_strength = ZIP_AES_192_BITS THEN 12 ELSE 0)
    + (IF key_strength = ZIP_AES_256_BITS THEN 16 ELSE 0)

\* Returns [a, ok]; entry's offset (and AES salt and verifier) are updated.
zip_parse_local(a, f, entry) ==
  LET e == a.ent[entry]
      fail(a1, code) == [a |-> SetErr(a1, code), ok |-> FALSE]
  IN
  IF ~HasLocal(f, e.offset)
  THEN fail(a, IF BLe(BAddI(e.offset, 4), f.len) THEN ERR_CORRUPT ELSE ERR_IO)
  ELSE
    Let(LocalAt(f, e.offset), LAMBDA h :
    LET notui16 == IF h.compression_method = 0 THEN 1 ELSE 0
    IN
    Let(BAddI(e.offset, h.fnamelen + h.extralen + 30), LAMBDA off1 :
    Let([a EXCEPT !.ent[entry].offset = off1], LAMBDA a1 :
    Let(AesSaltLen(e.aes_data.key_strength), LAMBDA n :
    Let(IoRead(f, off1, n + 2), LAMBDA raw :
    IF ~h.sig THEN fail(a, ERR_CORRUPT)
    ELSE IF h.version_needed # e.version_needed THEN fail(a, ERR_CORRUPT)
    ELSE IF ZIP_IS_AES(e) /\ notui16 # e.compression_method THEN fail(a, ERR_CORRUPT)
    ELSE IF h.crc # <<0, 0>> /\ h.crc # e.crc THEN fail(a, ERR_CORRUPT)
    ELSE IF h.compressed_size # BZero /\ h.compressed_size # FFFFFFFF
              /\ h.compressed_size # e.compressed_size THEN fail(a, ERR_CORRUPT)
    ELSE IF h.uncompressed_size # BZero /\ h.uncompressed_size # FFFFFFFF
              /\ h.uncompressed_size # e.uncompressed_size THEN fail(a, ERR_CORRUPT)
    ELSE IF ~ZIP_IS_AES(e) THEN [a |-> a1, ok |-> TRUE]
    ELSE IF COMPMETH_NONE # e.compression_method THEN fail(a1, ERR_CORRUPT)
    ELSE IF Len(raw) < n
         THEN fail([a1 EXCEPT !.ent[entry].aes_data.salt = raw], ERR_CORRUPT)
    ELSE IF Len(raw) < n + 2
         THEN fail([a1 EXCEPT !.ent[entry].aes_data.salt = SubSeq(raw, 1, n),
                              !.ent[entry].offset = BAddI(off1, n)], ERR_CORRUPT)
    ELSE [a |-> [a1 EXCEPT !.ent[entry].aes_data.salt = SubSeq(raw, 1, n),
                           !.ent[entry].aes_data.pass_verification = raw[n + 1] + (U8 * raw[n + 2]),
                           !.ent[entry].offset = BAddI(off1, n + 2)],
          ok |-> TRUE])))))

RECURSIVE zip_follow_symlink(_, _, _)
RECURSIVE zip_resolve_symlink(_, _, _)
RECURSIVE zip_resolve(_, _, _)

\* zip_follow_symlink as it would be if it returned the entry the name
\* leads to, a link included, and not the entry that link leads to.
zip_follow_symlink_one_step(a, f, buf) ==
  Let(zip_expand_symlink_path(buf), LAMBDA x :
  Let(zip_find_entry(a, CStr(x.buf, 1)), LAMBDA fe :
  Let(fe.retval, LAMBDA entry :
  Let(zip_resolve(fe.a, f, entry), LAMBDA r :
  IF x.hang THEN [a |-> a, retval |-> NULL, hang |-> TRUE]
  ELSE IF entry = NULL THEN [a |-> fe.a, retval |-> NULL, hang |-> FALSE]
  ELSE IF ~r.ok THEN [a |-> r.a, retval |-> NULL, hang |-> r.hang]
  ELSE [a |-> r.a, retval |-> entry, hang |-> FALSE]))))

\* Returns [a, retval, hang]: the final non-symlink entry, or NULL.
zip_follow_symlink(a, f, buf) ==
  Let(zip_expand_symlink_path(buf), LAMBDA x :
  Let(zip_find_entry(a, CStr(x.buf, 1)), LAMBDA fe :
  Let(fe.retval, LAMBDA entry :
  Let(zip_resolve(fe.a, f, entry), LAMBDA r :
  IF x.hang THEN [a |-> a, retval |-> NULL, hang |-> TRUE]
  ELSE IF entry = NULL THEN [a |-> fe.a, retval |-> NULL, hang |-> FALSE]
  ELSE IF ~r.ok THEN [a |-> r.a, retval |-> NULL, hang |-> r.hang]
  ELSE [a |-> r.a,
        retval |-> IF r.a.ent[entry].symlink # NULL THEN r.a.ent[entry].symlink ELSE entry,
        hang |-> FALSE]))))

\* Returns [a, ok, hang].
zip_resolve_symlink(a, f, entry) ==
  LET e == a.ent[entry]
      size == BInt(e.uncompressed_size)
  IN
  Let(IoRead(f, e.offset, size), LAMBDA raw :
  LET complen == BInt(e.compressed_size)
  IN
  Let(IoRead(f, e.offset, complen), LAMBDA compressed :
  Let(inflate([inflateInit2(initializeZStream) EXCEPT !.in = compressed], size), LAMBDA z :
  LET rc == IF e.compression_method = COMPMETH_NONE
            THEN Len(raw) = size
            ELSE Len(compressed) = complen /\ z.rc \in {Z_OK, Z_STREAM_END}
  IN
  Let(IF e.compression_method = COMPMETH_NONE THEN raw ELSE z.out, LAMBDA bytes :
  \* path[size] = '\0'; bytes the decoder did not write are shown as '?'.
  LET path == [i \in 1..(size + 1) |->
                 IF i = size + 1 THEN Nul
                 ELSE IF i <= Len(bytes) THEN Chr(bytes[i]) ELSE "?"]
  IN
  Let(zip_follow_symlink(a, f, zip_convert_dos_path(e.version, path)), LAMBDA fs :
  IF ~rc
  THEN [a |-> IF e.compression_method = COMPMETH_NONE THEN SetErr(a, ERR_IO)
              ELSE IF Len(compressed) # complen THEN SetErr(a, ERR_IO)
              ELSE SetErr(a, ERR_CORRUPT),
        ok |-> e.symlink # NULL, hang |-> FALSE]
  ELSE [a |-> [fs.a EXCEPT !.ent[entry].symlink = fs.retval],
        ok |-> fs.retval # NULL, hang |-> fs.hang])))))

\* zip_resolve as it would be if an entry found in state ZIP_RESOLVING were
\* reported like a broken one.
zip_resolve_loop_is_corrupt(a, f, entry) ==
  LET resolve_type == a.ent[entry].resolved
      a1 == [a EXCEPT !.ent[entry].resolved = ZIP_RESOLVING]
  IN
  Let(zip_parse_local(a1, f, entry), LAMBDA p :
  Let(IF p.ok /\ resolve_type = ZIP_UNRESOLVED_SYMLINK
      THEN zip_resolve_symlink(p.a, f, entry)
      ELSE [a |-> p.a, ok |-> p.ok, hang |-> FALSE], LAMBDA s :
  IF resolve_type = ZIP_DIRECTORY THEN [a |-> a, ok |-> TRUE, hang |-> FALSE]
  ELSE IF resolve_type \in {ZIP_BROKEN_FILE, ZIP_BROKEN_SYMLINK, ZIP_RESOLVING}
       THEN [a |-> SetErr(a, ERR_CORRUPT), ok |-> FALSE, hang |-> FALSE]
  ELSE IF resolve_type = ZIP_RESOLVED THEN [a |-> a, ok |-> TRUE, hang |-> FALSE]
  ELSE IF s.hang THEN s
  ELSE [a |-> [s.a EXCEPT !.ent[entry].resolved =
                 IF resolve_type = ZIP_UNRESOLVED_SYMLINK
                 THEN (IF s.ok THEN ZIP_RESOLVED ELSE ZIP_BROKEN_SYMLINK)
                 ELSE (IF s.ok THEN ZIP_RESOLVED ELSE ZIP_BROKEN_FILE)],
        ok |-> s.ok, hang |-> FALSE]))

\* zip_resolve as it would be if it returned at once when the symlink's
\* target cannot be resolved, the mark still on the entry.
zip_resolve_returns_early(a, f, entry) ==
  LET resolve_type == a.ent[entry].resolved
      a1 == [a EXCEPT !.ent[entry].resolved = ZIP_RESOLVING]
  IN
  Let(zip_parse_local(a1, f, entry), LAMBDA p :
  Let(IF p.ok /\ resolve_type = ZIP_UNRESOLVED_SYMLINK
      THEN zip_resolve_symlink(p.a, f, entry)
      ELSE [a |-> p.a, ok |-> p.ok, hang |-> FALSE], LAMBDA s :
  IF resolve_type = ZIP_DIRECTORY THEN [a |-> a, ok |-> TRUE, hang |-> FALSE]
  ELSE IF resolve_type = ZIP_BROKEN_FILE \/ resolve_type = ZIP_BROKEN_SYMLINK
       THEN [a |-> SetErr(a, ERR_CORRUPT), ok |-> FALSE, hang |-> FALSE]
  ELSE IF resolve_type = ZIP_RESOLVING
       THEN [a |-> SetErr(a, ERR_SYMLINK_LOOP), ok |-> FALSE, hang |-> FALSE]
  ELSE IF resolve_type = ZIP_RESOLVED THEN [a |-> a, ok |-> TRUE, hang |-> FALSE]
  ELSE IF s.hang THEN s
  ELSE IF p.ok /\ ~s.ok THEN [a |-> s.a, ok |-> FALSE, hang |-> FALSE]
  ELSE [a |-> [s.a EXCEPT !.ent[entry].resolved =
                 IF resolve_type = ZIP_UNRESOLVED_SYMLINK
                 THEN (IF s.ok THEN ZIP_RESOLVED ELSE ZIP_BROKEN_SYMLINK)
                 ELSE (IF s.ok THEN ZIP_RESOLVED ELSE ZIP_BROKEN_FILE)],
        ok |-> s.ok, hang |-> FALSE]))

\* zip_resolve as it would be if a failed resolution left the entry as it
\* was found, unresolved.
zip_resolve_forgets_failure(a, f, entry) ==
  LET resolve_type == a.ent[entry].resolved
      a1 == [a EXCEPT !.ent[entry].resolved = ZIP_RESOLVING]
  IN
  Let(zip_parse_local(a1, f, entry), LAMBDA p :
  Let(IF p.ok /\ resolve_type = ZIP_UNRESOLVED_SYMLINK
      THEN zip_resolve_symlink(p.a, f, entry)
      ELSE [a |-> p.a, ok |-> p.ok, hang |-> FALSE], LAMBDA s :
  IF resolve_type = ZIP_DIRECTORY THEN [a |-> a, ok |-> TRUE, hang |-> FALSE]
  ELSE IF resolve_type = ZIP_BROKEN_FILE \/ resolve_type = ZIP_BROKEN_SYMLINK
       THEN [a |-> SetErr(a, ERR_CORRUPT), ok |-> FALSE, hang |-> FALSE]
  ELSE IF resolve_type = ZIP_RESOLVING
       THEN [a |-> SetErr(a, ERR_SYMLINK_LOOP), ok |-> FALSE, hang |-> FALSE]
  ELSE IF resolve_type = ZIP_RESOLVED THEN [a |-> a, ok |-> TRUE, hang |-> FALSE]
  ELSE IF s.hang THEN s
  ELSE [a |-> [s.a EXCEPT !.ent[entry].resolved =
                 IF s.ok THEN ZIP_RESOLVED ELSE resolve_type],
        ok |-> s.ok, hang |-> FALSE]))

\* zip_resolve as it would be if an entry already resolved were resolved
\* anew, its local header parsed at the offset the first resolution left.
zip_resolve_parses_again(a, f, entry) ==
  LET resolve_type == a.ent[entry].resolved
      a1 == [a EXCEPT !.ent[entry].resolved = ZIP_RESOLVING]
  IN
  Let(zip_parse_local(a1, f, entry), LAMBDA p :
  Let(IF p.ok /\ resolve_type = ZIP_UNRESOLVED_SYMLINK
      THEN zip_resolve_symlink(p.a, f, entry)
      ELSE [a |-> p.a, ok |-> p.ok, hang |-> FALSE], LAMBDA s :
  IF resolve_type = ZIP_DIRECTORY THEN [a |-> a, ok |-> TRUE, hang |-> FALSE]
  ELSE IF resolve_type = ZIP_BROKEN_FILE \/ resolve_type = ZIP_BROKEN_SYMLINK
       THEN [a |-> SetErr(a, ERR_CORRUPT), ok |-> FALSE, hang |-> FALSE]
  ELSE IF resolve_type = ZIP_RESOLVING
       THEN [a |-> SetErr(a, ERR_SYMLINK_LOOP), ok |-> FALSE, hang |-> FALSE]
  ELSE IF s.hang THEN s
  ELSE [a |-> [s.a EXCEPT !.ent[entry].resolved =
                 IF resolve_type = ZIP_UNRESOLVED_SYMLINK
                 THEN (IF s.ok THEN ZIP_RESOLVED ELSE ZIP_BROKEN_SYMLINK)
                 ELSE (IF s.ok THEN ZIP_RESOLVED ELSE ZIP_BROKEN_FILE)],
        ok |-> s.ok, hang |-> FALSE]))

\* Returns [a, ok, hang].
zip_resolve(a, f, entry) ==
  LET resolve_type == a.ent[entry].resolved
      a1 == [a EXCEPT !.ent[entry].resolved = ZIP_RESOLVING]
  IN
  Let(zip_parse_local(a1, f, entry), LAMBDA p :
  Let(IF p.ok /\ resolve_type = ZIP_UNRESOLVED_SYMLINK
      THEN zip_resolve_symlink(p.a, f, entry)
      ELSE [a |-> p.a, ok |-> p.ok, hang |-> FALSE], LAMBDA s :
  IF resolve_type = ZIP_DIRECTORY THEN [a |-> a, ok |-> TRUE, hang |-> FALSE]
  ELSE IF resolve_type = ZIP_BROKEN_FILE \/ resolve_type = ZIP_BROKEN_SYMLINK
       THEN [a |-> SetErr(a, ERR_CORRUPT), ok |-> FALSE, hang |-> FALSE]
  ELSE IF resolve_type = ZIP_RESOLVING
       THEN [a |-> SetErr(a, ERR_SYMLINK_LOOP), ok |-> FALSE, hang |-> FALSE]
  ELSE IF resolve_type = ZIP_RESOLVED THEN [a |-> a, ok |-> TRUE, hang |-> FALSE]
  ELSE IF s.hang THEN s
  ELSE [a |-> [s.a EXCEPT !.ent[entry].resolved =
                 IF resolve_type = ZIP_UNRESOLVED_SYMLINK
                 THEN (IF s.ok THEN ZIP_RESOLVED ELSE ZIP_BROKEN_SYMLINK)
                 ELSE (IF s.ok THEN ZIP_RESOLVED ELSE ZIP_BROKEN_FILE)],
        ok |-> s.ok, hang |-> FALSE]))

(***************************************************************************)
(* The AES context of an open file (fcrypt_ctx of the fileenc library):    *)
(* key stands for the key schedule, nonce for the counter, encr_bfr for    *)
(* the encrypted counter block and encr_pos for the position in it.  The   *)
(* key derivation and the block cipher are stand-ins: small mixing         *)
(* functions of the salt, the key strength and the counter.                *)
(***************************************************************************)
AES_BLOCK_SIZE == 16

RECURSIVE SumSeq(_)
SumSeq(q) == IF q = <<>> THEN 0 ELSE (Head(q) + SumSeq(Tail(q))) % U16

\* memset(&aes_ctx, '\0', ...)
ZeroAesCtx == [key |-> 0, nonce |-> 0, encr_bfr |-> [i \in 1..AES_BLOCK_SIZE |-> 0], encr_pos |-> 0]

AesKey(key_strength, salt) == (((SumSeq(salt) * 7) + (key_strength * 29)) % 251) + 1

\* fcrypt_init with ZIP_AES_DEFAULT_PASSWORD: [ctx, pass_verifier].
fcrypt_init(key_strength, salt) ==
  [ctx |-> [key |-> AesKey(key_strength, salt), nonce |-> 0,
            encr_bfr |-> [i \in 1..AES_BLOCK_SIZE |-> 0], encr_pos |-> AES_BLOCK_SIZE],
   pass_verifier |-> ((AesKey(key_strength, salt) * 257) + 11) % U16]

\* aes_encrypt(nonce, encr_bfr, encr_ctx): the encrypted counter block.
aes_encrypt(key, nonce) ==
  [i \in 1..AES_BLOCK_SIZE |-> ((key * 31) + (nonce * 17) + (i * 7) + 1) % U8]

\* The step of encr_data at a full block: next counter, next xor buffer.
AesNextBlock(cx) ==
  IF cx.encr_pos = AES_BLOCK_SIZE
  THEN [cx EXCEPT !.nonce = @ + 1, !.encr_bfr = aes_encrypt(cx.key, cx.nonce + 1), !.encr_pos = 0]
  ELSE cx

RECURSIVE fcrypt_decrypt(_, _)
\* fcrypt_decrypt(data, len, cx): [data, ctx].
fcrypt_decrypt(data, cx) ==
  IF data = <<>> THEN [data |-> <<>>, ctx |-> cx]
  ELSE Let(AesNextBlock(cx), LAMBDA c1 :
       \* past a position beyond the block the xor buffer is overrun
       LET k == IF c1.encr_pos < AES_BLOCK_SIZE THEN c1.encr_bfr[c1.encr_pos + 1] ELSE 0
       IN
       Let(fcrypt_decrypt(Tail(data), [c1 EXCEPT !.encr_pos = @ + 1]), LAMBDA r :
           [data |-> <<BitXor(Head(data), k)>> \o r.data, ctx |-> r.ctx]))

RECURSIVE AesSkip(_, _)
\* The for loop of zip_entry_update_aes_offset over i < uncompressed_position.
AesSkip(cx, n) ==
  IF n = 0 THEN cx
  ELSE AesSkip([AesNextBlock(cx) EXCEPT !.encr_pos = @ + 1], n - 1)

\* Returns [s, ok].
zip_entry_update_aes_offset(a, s) ==
  LET entry == a.ent[s.entry]
  IN
  Let(fcrypt_init(entry.aes_data.key_strength, entry.aes_data.salt), LAMBDA init :
  IF entry.aes_data.pass_verification # init.pass_verifier
  THEN [s |-> [s EXCEPT !.aes_ctx = init.ctx], ok |-> FALSE]
  ELSE [s |-> [s EXCEPT !.aes_ctx = AesSkip(init.ctx, BInt(s.uncompressed_position))],
        ok |-> TRUE])

RECURSIVE AesChunks(_, _)
\* The 16-byte chunk loop of zip_read_decrypt.
AesChunks(buf, cx) ==
  IF Len(buf) >= 16
  THEN Let(fcrypt_decrypt(SubSeq(buf, 1, 16), cx), LAMBDA d :
       Let(AesChunks(SubSeq(buf, 17, Len(buf)), d.ctx), LAMBDA r :
           [data |-> d.data \o r.data, ctx |-> r.ctx]))
  ELSE IF Len(buf) > 0 THEN fcrypt_decrypt(buf, cx)
  ELSE [data |-> <<>>, ctx |-> cx]

RECURSIVE ClassicDecrypt(_, _)
\* The byte loop of zip_read_decrypt: [data, keys].
ClassicDecrypt(buf, keys) ==
  IF buf = <<>> THEN [data |-> <<>>, keys |-> keys]
  ELSE Let(BitXor(Head(buf), zip_decrypt_byte(keys)), LAMBDA ch :
       Let(ClassicDecrypt(Tail(buf), zip_update_crypto_keys(keys, ch)), LAMBDA r :
           [data |-> <<ch>> \o r.data, keys |-> r.keys]))

(***************************************************************************)
(* An open file (ZIPfileinfo) is a record                                  *)
(*   entry, io (the position of its own byte source), compressed_position, *)
(*   uncompressed_position (32 bits each), buffer (allocated or not),      *)
(*   crypto_keys, initial_crypto_keys, stream, aes_ctx,                    *)
(* and live: what it holds of the allocator and the byte source layer.     *)
(***************************************************************************)
NoRes == [io |-> 0, finfo |-> 0, src |-> 0, buffer |-> 0, zstate |-> 0]
ZeroKeys == << <<0, 0>>, <<0, 0>>, <<0, 0>> >>

\* memset(finfo, '\0', sizeof (ZIPfileinfo))
ZeroFinfo ==
  [entry |-> NULL, io |-> BZero, compressed_position |-> BZero,
   uncompressed_position |-> BZero, buffer |-> FALSE, crypto_keys |-> ZeroKeys,
   initial_crypto_keys |-> ZeroKeys, stream |-> initializeZStream,
   aes_ctx |-> ZeroAesCtx, live |-> NoRes]

\* Returns [s, buf, br, err].
zip_read_decrypt(f, a, s, len) ==
  LET entry == a.ent[s.entry]
  IN
  Let(IoRead(f, s.io, len), LAMBDA raw :
  Let(Len(raw), LAMBDA br :
  Let([s EXCEPT !.io = BAddI(@, br)], LAMBDA s1 :
  Let(IF s1.aes_ctx.encr_pos > AES_BLOCK_SIZE
      THEN zip_entry_update_aes_offset(a, s1) ELSE [s |-> s1, ok |-> TRUE], LAMBDA u :
  Let(AesChunks(raw, u.s.aes_ctx), LAMBDA d :
  Let(ClassicDecrypt(raw, s1.crypto_keys), LAMBDA c :
  IF zip_entry_is_tradional_crypto(entry) /\ br > 0
  THEN IF ZIP_IS_AES(entry)
       THEN IF ~u.ok THEN [s |-> u.s, buf |-> raw, br |-> -1, err |-> ERR_CORRUPT]
            ELSE [s |-> [u.s EXCEPT !.aes_ctx = d.ctx], buf |-> d.data, br |-> br, err |-> ERR_OK]
       ELSE [s |-> [s1 EXCEPT !.crypto_keys = c.keys], buf |-> c.data, br |-> br, err |-> ERR_OK]
  ELSE [s |-> s1, buf |-> raw, br |-> br, err |-> ERR_OK]))))))

\* The sizes of the decompression buffer (ZIP_READBUFSIZE) and of the
\* skip buffer of ZIP_seek, scaled down to the sizes of the files modelled.
ReadBufSize == 2
SeekChunk == 3

\* inflateInit2 and inflateEnd on the decoder of an open file, with the
\* decoder state they allocate and free.
StreamInit(s, z) ==
  [s EXCEPT !.stream = inflateInit2(z), !.live.zstate = @ + 1]
StreamEnd(s) ==
  [s EXCEPT !.stream = inflateEnd(@),
            !.live.zstate = IF s.stream.state THEN @ - 1 ELSE @]

RECURSIVE ReadLoop(_, _, _, _, _, _)
\* The while loop of ZIP_read on a compressed entry: [s, buf, retval, err].
ReadLoop(f, a, s, out, retval, maxread) ==
  IF retval >= maxread THEN [s |-> s, buf |-> out, retval |-> retval, err |-> ERR_OK]
  ELSE
    LET entry == a.ent[s.entry]
    IN
    Let(s.stream.in = <<>> /\ BLt(s.compressed_position, entry.compressed_size), LAMBDA refill :
    Let(BSub(entry.compressed_size, s.compressed_position), LAMBDA left :
    LET br == IF BLt(Big(ReadBufSize), left) THEN ReadBufSize ELSE BInt(left)
    IN
    Let(zip_read_decrypt(f, a, s, br), LAMBDA d :
    Let(IF refill
        THEN [d.s EXCEPT !.compressed_position = Trunc32(BAddI(@, d.br)),
                         !.stream.in = d.buf]
        ELSE s, LAMBDA s1 :
    Let(inflate(s1.stream, maxread - retval), LAMBDA z :
    Let([s1 EXCEPT !.stream = z.z], LAMBDA s2 :
    Let(retval + Len(z.out), LAMBDA got :
    IF refill /\ d.br <= 0
    THEN [s |-> d.s, buf |-> out, retval |-> retval, err |-> d.err]
    ELSE IF z.rc # Z_OK
    THEN [s |-> s2, buf |-> out \o z.out, retval |-> got,
          err |-> IF z.rc = Z_STREAM_END THEN ERR_OK ELSE ERR_CORRUPT]
    ELSE ReadLoop(f, a, s2, out \o z.out, got, maxread))))))))

\* Returns [s, buf, retval, err]: buf holds the bytes delivered.
ZIP_read(f, a, s, len) ==
  LET entry == a.ent[s.entry]
  IN
  Let(BSub(entry.uncompressed_size, s.uncompressed_position), LAMBDA avail :
  Let(IF BLt(avail, Big(len)) THEN BInt(avail) ELSE len, LAMBDA maxread :
  Let(zip_read_decrypt(f, a, s, maxread), LAMBDA d :
  Let(IF entry.compression_method = COMPMETH_NONE
      THEN [s |-> d.s, buf |-> IF d.br > 0 THEN d.buf ELSE <<>>, retval |-> d.br, err |-> d.err]
      ELSE ReadLoop(f, a, s, <<>>, 0, maxread), LAMBDA r :
  IF maxread = 0 THEN [s |-> s, buf |-> <<>>, retval |-> 0, err |-> ERR_OK]
  ELSE IF r.retval > 0
       THEN [r EXCEPT !.s.uncompressed_position = Trunc32(BAddI(@, r.retval))]
       ELSE r))))

ZIP_tell(s) == s.uncompressed_position

ZIP_length(a, s) == a.ent[s.entry].uncompressed_size

RECURSIVE SeekLoop(_, _, _, _)
\* The while loop of ZIP_seek: [s, retval, err].
SeekLoop(f, a, s, offset) ==
  IF s.uncompressed_position = offset THEN [s |-> s, retval |-> 1, err |-> ERR_OK]
  ELSE
    Let(Trunc32(BSub(offset, s.uncompressed_position)), LAMBDA want :
    Let(IF BLt(Big(SeekChunk), want) THEN SeekChunk ELSE BInt(want), LAMBDA maxread :
    Let(ZIP_read(f, a, s, maxread), LAMBDA r :
    IF r.retval # maxread THEN [s |-> r.s, retval |-> 0, err |-> r.err]
    ELSE SeekLoop(f, a, r.s, offset))))

\* Returns [s, retval, err].
ZIP_seek(f, a, s, offset) ==
  LET entry == a.ent[s.entry]
  IN
  Let(zip_entry_is_tradional_crypto(entry), LAMBDA encrypted :
  Let(BAdd(offset, entry.offset), LAMBDA newpos :
  \* inflateInit2(&str); inflateEnd(&finfo->stream); memcpy(&finfo->stream, &str)
  LET rewound == [StreamInit(StreamEnd(s), initializeZStream) EXCEPT
                    !.io = BAddI(entry.offset, IF encrypted THEN 12 ELSE 0),
                    !.uncompressed_position = BZero,
                    !.compressed_position = BZero,
                    !.crypto_keys = IF encrypted THEN s.initial_crypto_keys ELSE @]
  IN
  IF BLt(entry.uncompressed_size, offset)
  THEN [s |-> s, retval |-> 0, err |-> ERR_PAST_EOF]
  ELSE IF ~encrypted /\ entry.compression_method = COMPMETH_NONE
  THEN [s |-> [s EXCEPT !.io = newpos, !.uncompressed_position = Trunc32(offset)],
        retval |-> 1, err |-> ERR_OK]
  ELSE IF ZIP_IS_AES(entry)
  THEN [s |-> [s EXCEPT !.aes_ctx.encr_pos = AES_BLOCK_SIZE + 1, !.io = newpos,
                        !.uncompressed_position = Trunc32(offset)],
        retval |-> 1, err |-> ERR_OK]
  ELSE SeekLoop(f, a, IF BLt(offset, s.uncompressed_position) THEN rewound ELSE s, offset)))

\* ZIP_destroy: what the open file still holds after it.
ZIP_destroy(a, s) ==
  LET s1 == [s EXCEPT !.live.src = @ - 1]
  IN
  Let(IF a.ent[s.entry].compression_method # COMPMETH_NONE THEN StreamEnd(s1) ELSE s1, LAMBDA s2 :
  Let(IF s2.buffer THEN [s2 EXCEPT !.live.buffer = @ - 1, !.buffer = FALSE] ELSE s2, LAMBDA s3 :
      [s3 EXCEPT !.live.finfo = @ - 1, !.live.io = @ - 1].live))

\* ZIP_duplicate: the new open file.
ZIP_duplicate(a, s) ==
  Let([ZeroFinfo EXCEPT !.live = [NoRes EXCEPT !.io = 1, !.finfo = 1, !.src = 1],
                        !.entry = s.entry,
                        !.io = IF a.ent[s.entry].symlink # NULL
                               THEN a.ent[a.ent[s.entry].symlink].offset
                               ELSE a.ent[s.entry].offset], LAMBDA s0 :
  IF a.ent[s.entry].compression_method # COMPMETH_NONE
  THEN StreamInit([s0 EXCEPT !.buffer = TRUE, !.live.buffer = 1], s0.stream)
  ELSE s0)

RECURSIVE PasswordKeys(_, _)
\* while (*password) zip_update_crypto_keys(keys, *(password++))
PasswordKeys(keys, password) ==
  IF password = <<>> THEN keys
  ELSE PasswordKeys(zip_update_crypto_keys(keys, Ord(Head(password))), Tail(password))

\* Returns [s, ok]: the keys of the open file s after the password and the
\* 12-byte header, and whether the last header byte matches the verifier.
zip_prep_crypto_keys(a, s, crypto_header, password) ==
  LET entry == a.ent[s.entry]
      usedate == zip_entry_ignore_local_header(entry)
      verifier == IF usedate THEN (entry.dos_mod_time[1] \div U8) % U8
                  ELSE (entry.crc[2] \div U8) % U8
  IN
  Let(ClassicDecrypt(crypto_header, PasswordKeys(InitialKeys, password)), LAMBDA d :
  LET finalbyte == d.data[12]
  IN
  IF finalbyte # verifier
  THEN [s |-> [s EXCEPT !.crypto_keys = d.keys], ok |-> FALSE]
  ELSE [s |-> [s EXCEPT !.crypto_keys = d.keys, !.initial_crypto_keys = d.keys], ok |-> TRUE])

\* Returns [a, io, hang]: io is the position of the duplicated byte source,
\* or BNone (the duplicate is destroyed again).
zip_get_io(a, f, resolve, entry) ==
  Let(IF resolve THEN zip_resolve(a, f, entry) ELSE [a |-> a, ok |-> TRUE, hang |-> FALSE], LAMBDA r :
  Let(r.a.ent[entry], LAMBDA e :
  IF r.hang THEN [a |-> r.a, io |-> BNone, hang |-> TRUE]
  ELSE IF ~r.ok THEN [a |-> r.a, io |-> BNone, hang |-> FALSE]
  ELSE [a |-> r.a, hang |-> FALSE,
        io |-> IF e.symlink # NULL THEN r.a.ent[e.symlink].offset ELSE e.offset]))

\* Returns [a, retval, hang, entry, password]: retval is the open file, or
\* None; entry is the entry the name was found as and password tells
\* whether the name carried one.
ZIP_openRead(a, f, filename) ==
  Let(zip_find_entry(a, filename), LAMBDA f1 :
  Let(strrchr(filename, "$", Len(filename)), LAMBDA ptr :
  Let(f1.retval = NULL /\ f1.a.has_crypto /\ ptr # 0, LAMBDA retry :
  Let(IF retry THEN zip_find_entry(f1.a, SubSeq(filename, 1, ptr - 1)) ELSE f1, LAMBDA f2 :
  Let(f2.retval, LAMBDA entry :
  Let(retry, LAMBDA haspw :
  LET password == SubSeq(filename, ptr + 1, Len(filename))
  IN
  Let(zip_get_io(f2.a, f, TRUE, entry), LAMBDA g :
  Let(IF g.a.ent[entry].symlink # NULL THEN g.a.ent[entry].symlink ELSE entry, LAMBDA target :
  Let([ZeroFinfo EXCEPT !.live = [NoRes EXCEPT !.io = 1, !.finfo = 1, !.src = 1],
                        !.io = g.io, !.entry = target], LAMBDA s0 :
  Let(IF g.a.ent[target].compression_method # COMPMETH_NONE
      THEN StreamInit([s0 EXCEPT !.buffer = TRUE, !.live.buffer = 1], s0.stream)
      ELSE s0, LAMBDA s1 :
  Let(IoRead(f, s1.io, 12), LAMBDA crypto_header :
  Let(zip_prep_crypto_keys(g.a, [s1 EXCEPT !.io = BAddI(@, 12)], crypto_header, password), LAMBDA k :
  LET ret(a1, code, file) == [a |-> IF code = ERR_OK THEN a1 ELSE SetErr(a1, code),
                              retval |-> file, hang |-> FALSE,
                              entry |-> entry, password |-> haspw]
  IN
  IF entry = NULL THEN ret(f2.a, ERR_OK, None)
  ELSE IF g.hang THEN [ret(g.a, ERR_OK, None) EXCEPT !.hang = TRUE]
  ELSE IF g.io = BNone THEN ret(g.a, ERR_OK, None)
  ELSE IF ~zip_entry_is_tradional_crypto(g.a.ent[entry])
  THEN IF haspw THEN ret(g.a, ERR_BAD_PASSWORD, None)
       ELSE ret(g.a, ERR_OK, s1)
  ELSE IF ZIP_IS_AES(g.a.ent[entry])
  THEN ret(g.a, ERR_OK, [s1 EXCEPT !.aes_ctx.encr_pos = AES_BLOCK_SIZE + 1])
  ELSE IF ~haspw THEN ret(g.a, ERR_BAD_PASSWORD, None)
  ELSE IF Len(crypto_header) # 12 THEN ret(g.a, ERR_OK, None)
  ELSE IF ~k.ok THEN ret(g.a, ERR_BAD_PASSWORD, None)
  ELSE ret(g.a, ERR_OK, k.s)))))))))))))

PHYSFS_FILETYPE_REGULAR == "REGULAR"
PHYSFS_FILETYPE_DIRECTORY == "DIRECTORY"
PHYSFS_FILETYPE_SYMLINK == "SYMLINK"

\* zip_entry_is_symlink as it would be if it looked at the state only.
zip_entry_is_symlink_by_state(entry) ==
  \/ entry.resolved = ZIP_UNRESOLVED_SYMLINK
  \/ entry.resolved = ZIP_BROKEN_SYMLINK

zip_entry_is_symlink(entry) ==
  \/ entry.resolved = ZIP_UNRESOLVED_SYMLINK
  \/ entry.resolved = ZIP_BROKEN_SYMLINK
  \/ entry.symlink # NULL

\* ZIP_write as it would be if it took the bytes.
ZIP_write_advances(a, s, len) ==
  [a |-> a, s |-> [s EXCEPT !.uncompressed_position = Trunc32(BAddI(@, len))],
   retval |-> len]

\* The operations that would change an archive.  ZIP_write returns
\* [a, s, retval], the others [a, retval].
ZIP_write(a, s, len) == [a |-> SetErr(a, ERR_READ_ONLY), s |-> s, retval |-> -1]

ZIP_openWrite(a, filename) == [a |-> SetErr(a, ERR_READ_ONLY), retval |-> None]

ZIP_openAppend(a, filename) == [a |-> SetErr(a, ERR_READ_ONLY), retval |-> None]

ZIP_remove(a, name) == [a |-> SetErr(a, ERR_READ_ONLY), retval |-> 0]

ZIP_mkdir(a, name) == [a |-> SetErr(a, ERR_READ_ONLY), retval |-> 0]

\* Returns [retval, stat]; a is the archive, entry the entry or NULL.
ZIP_statEntry(a, entry) ==
  IF entry = NULL THEN [retval |-> 0, stat |-> None]
  ELSE LET e == a.ent[entry]
       IN
       Let(IF e.resolved = ZIP_DIRECTORY THEN PHYSFS_FILETYPE_DIRECTORY
           ELSE IF zip_entry_is_symlink(e) THEN PHYSFS_FILETYPE_SYMLINK
           ELSE PHYSFS_FILETYPE_REGULAR, LAMBDA kind :
           [retval |-> 1,
            stat |-> [filesize |-> IF kind = PHYSFS_FILETYPE_REGULAR
                                   THEN e.uncompressed_size ELSE BZero,
                      filetype |-> kind, modtime |-> e.last_mod_time,
                      createtime |-> e.last_mod_time, accesstime |-> BZero,
                      readonly |-> 1]])

\* Returns [a, retval, stat].
ZIP_stat(a, filename) ==
  Let(zip_find_entry(a, filename), LAMBDA f :
  Let(ZIP_statEntry(f.a, f.retval), LAMBDA r :
      [a |-> f.a, retval |-> r.retval, stat |-> r.stat]))

RECURSIVE EnumLoop(_, _)
\* The for loop of ZIP_enumerateFiles over the sibling list: the callbacks.
EnumLoop(a, entry) ==
  IF entry = NULL THEN <<>>
  ELSE LET e == a.ent[entry]
           ptr == strrchr(e.name, "/", Len(e.name))
       IN  <<[fname |-> SubSeq(e.name, ptr + 1, Len(e.name)),
              filetype |-> IF e.resolved = ZIP_DIRECTORY THEN PHYSFS_FILETYPE_DIRECTORY
                           ELSE PHYSFS_FILETYPE_REGULAR,
              entry |-> entry]>>
           \o EnumLoop(a, e.sibling)

\* Returns [a, cb]: cb is the sequence of callbacks made.
ZIP_enumerateFiles(a, dname) ==
  Let(zip_find_entry(a, dname), LAMBDA f :
      [a |-> f.a,
       cb |-> IF f.retval # NULL /\ f.a.ent[f.retval].resolved = ZIP_DIRECTORY
              THEN EnumLoop(f.a, f.a.ent[f.retval].children) ELSE <<>>])

(***************************************************************************)
(* Archive images.  A member is what an archiver wrote for one file: the   *)
(* fields of its central directory record, the fields of its local header  *)
(* (local) and the bytes stored after the header (data).  Layout puts the   *)
(* members one after the other from position 0, then the central           *)
(* directory, then the end-of-central-directory record.                     *)
(***************************************************************************)
Bytes(str) == [i \in 1..Len(str) |-> Ord(str[i])]

Member(name, bits, method, crc, usize, data, mode) ==
  [name |-> name, version |-> (3 * U8) + 20, version_needed |-> 20,
   general_bits |-> bits, compression_method |-> method, dos_mod_time |-> <<0, 33>>,
   crc |-> crc, uncompressed_size |-> Big(usize), compressed_size |-> Big(Len(data)),
   xattr |-> mode, extra |-> <<>>, extralen |-> 0, data |-> data,
   local |-> [sig |-> TRUE, version_needed |-> 20, compression_method |-> method,
              crc |-> crc, compressed_size |-> Big(Len(data)),
              uncompressed_size |-> Big(usize), fnamelen |-> Len(name), extralen |-> 0]]

RECURSIVE ClassicEncrypt(_, _)
\* What an archiver does with the classic cipher: the inverse of ClassicDecrypt.
ClassicEncrypt(plain, keys) ==
  IF plain = <<>> THEN <<>>
  ELSE <<BitXor(Head(plain), zip_decrypt_byte(keys))>>
         \o ClassicEncrypt(Tail(plain), zip_update_crypto_keys(keys, Head(plain)))

\* A stored file, a compressed file (tokens: its compressed bytes), a
\* directory and a symbolic link.
StoredFile(name, plain) == Member(name, 0, COMPMETH_NONE, <<4660, 22136>>, Len(plain), plain, 33188)
DeflatedFile(name, tokens, usize) ==
  Member(name, 0, COMPMETH_DEFLATE, <<4660, 22136>>, usize, tokens, 33188)
Directory(name) == Member(name, 0, COMPMETH_NONE, <<0, 0>>, 0, <<>>, 16877)
Symlink(name, target) ==
  Member(name, 0, COMPMETH_NONE, <<4660, 22136>>, Len(target), Bytes(target), 41471)

\* A file under the classic cipher with the given password: the 12-byte
\* header ends with the high byte of the CRC.
ClassicFile(name, method, password, payload, usize) ==
  LET crc == <<4660, 22136>>
      hdr == <<1, 2, 3, 4, 5, 6, 7, 8, 9, 10, 11, (crc[2] \div U8) % U8>>
  IN  Member(name, ZIP_GENERAL_BITS_TRADITIONAL_CRYPTO, method, crc, usize,
             ClassicEncrypt(hdr \o payload, PasswordKeys(InitialKeys, password)), 33188)

\* A file under AES: salt, password verifier, encrypted bytes, 10 bytes of
\* authentication code.  verifier_ok = FALSE stores a wrong verifier.
AesFile(name, key_strength, plain, verifier_ok) ==
  Let([i \in 1..AesSaltLen(key_strength) |-> i], LAMBDA salt :
  Let(fcrypt_init(key_strength, salt), LAMBDA init :
  Let(IF verifier_ok THEN init.pass_verifier ELSE (init.pass_verifier + 1) % U16, LAMBDA pv :
  LET m == Member(name, ZIP_GENERAL_BITS_TRADITIONAL_CRYPTO, COMPMETH_AES, <<0, 0>>, Len(plain),
                  salt \o <<pv % U8, pv \div U8>> \o fcrypt_decrypt(plain, init.ctx).data
                    \o [i \in 1..10 |-> 0], 33188)
  IN
      [m EXCEPT !.extra = <<[sig |-> ZIP_AES_HEADER_EXTRA_FIELD_SIG, len |-> 7,
                             vendor_version |-> ZIP_AE2_VENDOR_VERSION,
                             vendor_id |-> ZIP_AES_VENDOR_ID,
                             key_strength |-> key_strength, compression |-> 0]>>,
                !.extralen = 11])))

RECURSIVE Image(_, _, _)
\* The bytes of the members: each local header (its bytes stand for
\* themselves, as the headers are kept parsed) and the data after it.
Image(members, i, pos) ==
  IF i > Len(members) THEN <<>>
  ELSE LET hlen == 30 + Len(members[i].name)
       IN  [k \in 1..hlen |-> Filler(Big(pos + k - 1))] \o members[i].data
             \o Image(members, i + 1, pos + hlen + Len(members[i].data))

RECURSIVE Locals(_, _, _)
\* The local headers by position.
Locals(members, i, pos) ==
  IF i > Len(members) THEN <<>>
  ELSE <<[pos |-> pos, hdr |-> members[i].local]>>
         \o Locals(members, i + 1, pos + 30 + Len(members[i].name) + Len(members[i].data))

RECURSIVE Central(_, _, _)
\* The central directory records.
Central(members, i, pos) ==
  IF i > Len(members) THEN <<>>
  ELSE <<[sig |-> TRUE, cut |-> "no", version |-> members[i].version,
          version_needed |-> members[i].version_needed,
          general_bits |-> members[i].general_bits,
          compression_method |-> members[i].compression_method,
          dos_mod_time |-> members[i].dos_mod_time, crc |-> members[i].crc,
          compressed_size |-> members[i].compressed_size,
          uncompressed_size |-> members[i].uncompressed_size,
          name |-> members[i].name, extra |-> members[i].extra,
          extralen |-> members[i].extralen, commentlen |-> 0,
          starting_disk |-> 0, xattr |-> members[i].xattr, offset |-> Big(pos)]>>
         \o Central(members, i + 1, pos + 30 + Len(members[i].name) + Len(members[i].data))

RECURSIVE CdSize(_, _)
CdSize(members, i) ==
  IF i > Len(members) THEN 0
  ELSE 46 + Len(members[i].name) + members[i].extralen + CdSize(members, i + 1)

\* The byte source holding the members: see the fields read by the
\* operators above.  paths are the names a caller is taken to ask for and
\* loop the names of the links that lie on a cycle of links.
Layout(members, paths, loop) ==
  Let(Image(members, 1, 0), LAMBDA image :
  Let(Len(image), LAMBDA cdpos :
  LET n == Len(members)
  IN
  [isZip |-> TRUE,
   len |-> Big(cdpos + CdSize(members, 1) + 22),
   image |-> image,
   locals |-> Locals(members, 1, 0),
   cdpos |-> Big(cdpos),
   cd |-> Central(members, 1, 0),
   eocd |-> [pos |-> Big(cdpos + CdSize(members, 1)), sig |-> TRUE, disk |-> 0,
             disk_start |-> 0, entries_disk |-> n, entries_total |-> n,
             cdsize |-> Big(CdSize(members, 1)), cdofs |-> Big(cdpos),
             commentlen |-> 0, z64 |-> None],
   z64sigs |-> {}, z64rec |-> None,
   paths |-> paths, loop |-> loop]))

\* A stored file in a directory that has no record of its own, a link to
\* the file and a directory record.
PlainZip ==
  Layout(<<StoredFile(<<"a", "/", "b">>, <<10, 20, 30>>),
           Symlink(<<"l">>, <<"a", "/", "b">>),
           Directory(<<"a", "/", "x", "/">>)>>,
         {<<>>, <<"a">>, <<"a", "/", "b">>, <<"l">>, <<"p">>, <<"l", "$", "p">>},
         {})

\* A compressed file and a stored one, the second under a name in capitals.
DeflateZip ==
  Layout(<<DeflatedFile(<<"b">>, <<11, 14, 9, 0>>, 5),
           StoredFile(<<"A">>, <<10, 20>>)>>,
         {<<"b">>, <<"a">>, <<"x">>},
         {})

\* A stored file under the classic cipher with password "pw", and a link to it.
ClassicZip ==
  Layout(<<ClassicFile(<<"a">>, COMPMETH_NONE, <<"p", "w">>, <<10, 20, 30>>, 3),
           Symlink(<<"l">>, <<"a">>)>>,
         {<<"a">>, <<"a", "$", "p", "w">>, <<"a", "$", "w">>, <<"l">>, <<"l", "$", "p", "w">>},
         {})

\* A compressed file under the classic cipher, an AES-256 file, an AES-192
\* file with a wrong password verifier and a file that is not encrypted.
CryptoZip ==
  Layout(<<ClassicFile(<<"b">>, COMPMETH_DEFLATE, <<"p", "w">>, <<11, 14, 9, 0>>, 5),
           AesFile(<<"x">>, ZIP_AES_256_BITS, <<10, 20, 30>>, TRUE),
           AesFile(<<"w">>, ZIP_AES_192_BITS, <<10, 20>>, FALSE),
           StoredFile(<<"p">>, <<10, 20>>)>>,
         {<<"b", "$", "p", "w">>, <<"b">>, <<"x">>, <<"w">>, <<"p">>, <<"p", "$", "p", "w">>},
         {})

\* A compressed file under the classic cipher and an AES-256 file.
CipherZip ==
  Layout(<<ClassicFile(<<"b">>, COMPMETH_DEFLATE, <<"p", "w">>, <<11, 14, 9, 0>>, 5),
           AesFile(<<"x">>, ZIP_AES_256_BITS, <<10, 20, 30>>, TRUE)>>,
         {<<"b", "$", "p", "w">>, <<"x">>},
         {})

\* Links: a cycle of two and a link into the cycle.
LoopZip ==
  Layout(<<Symlink(<<"a">>, <<"b">>),
           Symlink(<<"b">>, <<"a">>),
           Symlink(<<"x">>, <<"a">>)>>,
         {<<"a">>, <<"b">>, <<"x">>},
         {<<"a">>, <<"b">>})

\* Directories: one listed before its file, one made for the files below
\* it and listed afterwards, and one that is never listed.
DirsZip ==
  Layout(<<Directory(<<"d", "/">>),
           StoredFile(<<"d", "/", "f">>, <<10>>),
           StoredFile(<<"e", "/", "g", "/", "h">>, <<20, 30>>),
           Directory(<<"e", "/">>)>>,
         {<<>>, <<"d">>, <<"e", "/", "g">>, <<"e", "/", "g", "/", "h">>},
         {})

\* A cycle of two links, the local header of one with a wrong signature.
DamagedLoopZip ==
  Layout(<<Symlink(<<"a">>, <<"b">>),
           [Symlink(<<"b">>, <<"a">>) EXCEPT !.local.sig = FALSE]>>,
         {<<"a">>, <<"b">>},
         {<<"a">>, <<"b">>})

\* A link to itself, a link through "..", a plain file, and a link to the
\* second link.
SelfZip ==
  Layout(<<Symlink(<<"l">>, <<"l">>),
           Symlink(<<"a", "/", "b">>, <<"a", "/", ".", ".", "/", "p">>),
           StoredFile(<<"p">>, <<10, 20>>),
           Symlink(<<"w">>, <<"a", "/", "b">>)>>,
         {<<"l">>, <<"a", "/", "b">>, <<"p">>, <<"w">>},
         {<<"l">>})

\* Damage: a file whose local header has a wrong signature, a link to it
\* and a link to a name that is not there.
BrokenZip ==
  Layout(<<[StoredFile(<<"a">>, <<10, 20>>) EXCEPT !.local.sig = FALSE],
           Symlink(<<"l">>, <<"a">>),
           Symlink(<<"b">>, <<"p">>)>>,
         {<<"a">>, <<"l">>, <<"b">>},
         {})

\* A file whose local header lies beyond the end of the byte source, a
\* link to it and a link to that link.
ShortZip ==
  Let(Layout(<<StoredFile(<<"x">>, <<10>>),
               Symlink(<<"w">>, <<"x">>),
               Symlink(<<"l">>, <<"w">>)>>,
             {<<"x">>, <<"w">>, <<"l">>},
             {}), LAMBDA z :
      [z EXCEPT !.cd[1].offset = BAddI(z.len, 8)])

\* A ZIP64 archive with one stored file of 4 GiB + 2 bytes.
HugeSize == <<4, 2>>
HugeZip ==
  [isZip |-> TRUE,
   len |-> <<4, 218>>,
   image |-> [k \in 1..51 |-> Filler(Big(k - 1))] \o <<10, 20, 30, 40>>,
   locals |-> <<[pos |-> 0,
                 hdr |-> [sig |-> TRUE, version_needed |-> 45,
                          compression_method |-> COMPMETH_NONE,
                          crc |-> <<4660, 22136>>, compressed_size |-> FFFFFFFF,
                          uncompressed_size |-> FFFFFFFF, fnamelen |-> 1, extralen |-> 20]]>>,
   cdpos |-> <<4, 53>>,
   cd |-> <<[sig |-> TRUE, cut |-> "no", version |-> (3 * U8) + 45, version_needed |-> 45,
             general_bits |-> 0, compression_method |-> COMPMETH_NONE,
             dos_mod_time |-> <<0, 33>>, crc |-> <<4660, 22136>>,
             compressed_size |-> FFFFFFFF, uncompressed_size |-> FFFFFFFF,
             name |-> <<"a">>,
             extra |-> <<[sig |-> ZIP64_EXTENDED_INFO_EXTRA_FIELD_SIG, len |-> 16,
                          vals |-> <<HugeSize, HugeSize>>]>>,
             extralen |-> 20, commentlen |-> 0, starting_disk |-> 0, xattr |-> 33188,
             offset |-> BZero]>>,
   eocd |-> [pos |-> <<4, 196>>, sig |-> TRUE, disk |-> 0, disk_start |-> 0,
             entries_disk |-> 1, entries_total |-> 1, cdsize |-> Big(67),
             cdofs |-> FFFFFFFF, commentlen |-> 0,
             z64 |-> [disk |-> 0, ofs |-> <<4, 120>>, total_disks |-> 1]],
   z64sigs |-> {<<4, 120>>},
   z64rec |-> [disk |-> 0, disk_start |-> 0, entries_disk |-> Big(1),
               entries_total |-> Big(1), cdofs |-> <<4, 53>>],
   paths |-> {<<"a">>}, loop |-> {}]

\* Archives that do not open: not a ZIP file, no end-of-central-directory
\* record, a record with a wrong signature, an AES extra field with an
\* unknown vendor, the same name twice, a byte source that ends inside a
\* record's name, and a file used as a directory.
NotZip == [PlainZip EXCEPT !.isZip = FALSE]
NoEocdZip == [PlainZip EXCEPT !.eocd = None]
BadSigZip == [PlainZip EXCEPT !.cd[3].sig = FALSE]
BadAesZip == [CryptoZip EXCEPT !.cd[2].extra[1].vendor_id = 0]
TwiceZip ==
  Layout(<<StoredFile(<<"a", "/", "b">>, <<10>>), StoredFile(<<"A", "/", "B">>, <<20>>)>>, {}, {})
CutZip == [PlainZip EXCEPT !.cd[2].cut = "name"]
FileDirZip ==
  Layout(<<StoredFile(<<"a">>, <<10>>), StoredFile(<<"a", "/", "b">>, <<20>>)>>, {}, {})

\* A file whose name is that of the directory made for an earlier file, and
\* a directory listed again after it has been made and listed.
FilledZip ==
  Layout(<<StoredFile(<<"a", "/", "b">>, <<10>>), StoredFile(<<"A">>, <<20, 30>>)>>,
         {<<"a">>, <<"a", "/", "b">>},
         {})
ThriceZip ==
  Layout(<<StoredFile(<<"a", "/", "b">>, <<10>>), Directory(<<"a", "/">>),
           Directory(<<"A", "/">>)>>, {}, {})

\* An archive with no members: the end-of-central-directory record is the
\* whole byte source.  The scan of zip_find_end_of_central_dir tests the
\* positions filepos + i for i > 0 and reads a byte source of this length
\* once, so the signature at position 0 is not found and isZip returns 0.
EmptyZip == [Layout(<<>>, {}, {}) EXCEPT !.isZip = FALSE]

\* A file whose stored name begins with '/' and a directory whose stored
\* name ends with two.
SlashZip ==
  Layout(<<StoredFile(<<"/", "a">>, <<10>>), Directory(<<"d", "/", "/">>)>>,
         {<<"a">>, <<"d">>},
         {})

\* HugeZip with a ZIP64 locator that records an offset past the ZIP64
\* end-of-central-directory record, where no signature is.
BackZip == [HugeZip EXCEPT !.eocd.z64.ofs = <<4, 130>>]

\* Links whose targets hold dots: one to "/..", which zip_expand_symlink_path
\* cuts to the empty string, one to the file "a/.b", and that file.
DotsZip ==
  Layout(<<Symlink(<<"l">>, <<"/", ".", ".">>),
           Symlink(<<"x">>, <<"a", "/", ".", "b">>),
           StoredFile(<<"a", "/", ".", "b">>, <<10, 20>>)>>,
         {<<"l">>, <<"x">>, <<"a", "/", ".", "b">>, <<"a">>},
         {})

\* An AES-128 file.
Aes128Zip ==
  Layout(<<AesFile(<<"x">>, ZIP_AES_128_BITS, <<10, 20, 30>>, TRUE)>>, {<<"x">>}, {})

\* A compressed file under the classic cipher whose compressed data, the
\* encryption header apart, is a single byte.
TinyZip ==
  Layout(<<ClassicFile(<<"b">>, COMPMETH_DEFLATE, <<"p", "w">>, <<11>>, 2),
           StoredFile(<<"p">>, <<10, 20>>)>>,
         {<<"b", "$", "p", "w">>},
         {})

Fixtures ==
  <<PlainZip, DeflateZip, ClassicZip, CryptoZip, CipherZip, DirsZip, LoopZip,
    DamagedLoopZip, SelfZip, BrokenZip, ShortZip,
    HugeZip, NotZip, NoEocdZip, BadSigZip, BadAesZip, TwiceZip, CutZip, FileDirZip,
    FilledZip, ThriceZip, EmptyZip, SlashZip, BackZip, DotsZip,
    Aes128Zip>>

(***************************************************************************)
(* The state machine.                                                      *)
(*   file     the byte source given to ZIP_openArchive,                    *)
(*   arch     the archive (ZIPinfo and its entries, the allocator, the     *)
(*            byte source's owner),                                        *)
(*   streams  the open files handed out, each with the name it was opened  *)
(*            by, None for a free handle,                                  *)
(*   last     the last call made to the archiver and what it returned,     *)
(*   leaked   what the open file destroyed last still held,                *)
(*   threads  the calls in progress when several threads call the archive  *)
(*            at a time: for each thread where it is in zip_find_entry and *)
(*            the values of its local variables.                           *)
(***************************************************************************)
VARIABLES file, arch, streams, last, leaked, threads
vars == <<file, arch, streams, last, leaked, threads>>

\* The number of open files a caller holds at a time (while it also calls
\* the archive's own operations, and while it only works on open files),
\* the greatest index of an allocation made to fail during ZIP_openArchive
\* (0: none fails), the greatest length asked of one read and the position
\* from which the caller reads no further.
MaxHeld == 1
MaxStreams == 2
MaxFailAt == 3
MaxRead == 3
MaxTell == 6

Handles == DOMAIN streams
Free1 == CHOOSE h \in Handles : streams[h] = None /\ \A g \in Handles : g < h => streams[g] # None
Clear(a) == [a EXCEPT !.err = ERR_OK]

Result(op, path, entry, pre, ok, err, password) ==
  [op |-> op, path |-> path, entry |-> entry, pre |-> pre, ok |-> ok, err |-> err,
   password |-> password, hang |-> FALSE]

Init ==
  /\ file \in {Fixtures[i] : i \in 1..Len(Fixtures)}
  /\ \E failAt \in 0..MaxFailAt : arch = NoArchive(failAt)
  /\ streams = [h \in 1..MaxHeld |-> None]
  /\ last = Result("none", <<>>, NULL, "", FALSE, ERR_OK, FALSE)
  /\ leaked = NoRes
  /\ threads = <<>>

\* ZIP_openArchive on the byte source; the allocation fault is for this call.
OpenArchive(forWriting) ==
  /\ arch.info = "none" /\ last.op = "none"
  /\ LET a == ZIP_openArchive(file, forWriting, arch.mem.failAt)
     IN  /\ arch' = [a EXCEPT !.mem.calls = 0, !.mem.failAt = 0]
         /\ last' = Result("open", <<>>, NULL, "", a.info = "open", a.err, FALSE)
  /\ UNCHANGED <<file, streams, leaked, threads>>

Usable == arch.info = "open" /\ ~last.hang

Stat(path) ==
  /\ Usable
  /\ LET r == ZIP_stat(Clear(arch), path)
     IN  /\ arch' = r.a
         /\ last' = Result("stat", path, NULL, "", r.retval = 1, r.a.err, FALSE)
  /\ UNCHANGED <<file, streams, leaked, threads>>

Enumerate(path) ==
  /\ Usable
  /\ LET r == ZIP_enumerateFiles(Clear(arch), path)
     IN  /\ arch' = r.a
         /\ last' = Result("enumerate", path, NULL, "", r.cb # <<>>, r.a.err, FALSE)
  /\ UNCHANGED <<file, streams, leaked, threads>>

OpenRead(path) ==
  /\ Usable
  /\ \E h \in Handles : streams[h] = None
  /\ LET r == ZIP_openRead(Clear(arch), file, path)
     IN  /\ arch' = r.a
         /\ streams' = IF r.retval # None
                       THEN [streams EXCEPT ![Free1] = [s |-> r.retval, path |-> path]]
                       ELSE streams
         /\ last' = [Result("openRead", path, r.entry,
                            IF r.entry = NULL THEN "" ELSE arch.ent[r.entry].resolved,
                            r.retval # None, r.a.err, r.password)
                       EXCEPT !.hang = r.hang]
  /\ UNCHANGED <<file, leaked, threads>>

Read(h, len) ==
  /\ Usable /\ streams[h] # None
  /\ BLt(ZIP_tell(streams[h].s), Big(MaxTell))
  /\ streams' = [streams EXCEPT ![h].s = ZIP_read(file, arch, streams[h].s, len).s]
  /\ UNCHANGED <<file, arch, last, leaked, threads>>

\* The offsets worth asking of ZIP_seek on the open file s.
SeekOffsets(h) ==
  IF streams[h] = None THEN {}
  ELSE LET size == arch.ent[streams[h].s.entry].uncompressed_size
       IN  {Big(n) : n \in {n \in 0..MaxRead : BLe(Big(n), size)}}
             \cup {size, BAddI(size, 1)}

Seek(h, offset) ==
  /\ Usable /\ streams[h] # None
  /\ streams' = [streams EXCEPT ![h].s = ZIP_seek(file, arch, streams[h].s, offset).s]
  /\ UNCHANGED <<file, arch, last, leaked, threads>>

Duplicate(h) ==
  /\ Usable /\ streams[h] # None
  /\ \E g \in Handles : streams[g] = None
  /\ streams' = [streams EXCEPT ![Free1] = [s |-> ZIP_duplicate(arch, streams[h].s),
                                            path |-> streams[h].path]]
  /\ UNCHANGED <<file, arch, last, leaked, threads>>

Destroy(h) ==
  /\ Usable /\ streams[h] # None
  /\ leaked' = ZIP_destroy(arch, streams[h].s)
  /\ streams' = [streams EXCEPT ![h] = None]
  /\ UNCHANGED <<file, arch, last, threads>>

CloseArchive ==
  /\ Usable /\ \A h \in Handles : streams[h] = None
  /\ arch' = ZIP_closeArchive(arch)
  /\ last' = Result("close", <<>>, NULL, "", TRUE, ERR_OK, FALSE)
  /\ UNCHANGED <<file, streams, leaked, threads>>

Next ==
  \/ \E w \in BOOLEAN : OpenArchive(w)
  \/ \E path \in file.paths : Stat(path)
  \/ \E path \in file.paths : Enumerate(path)
  \/ \E path \in file.paths : OpenRead(path)
  \/ \E h \in Handles : Destroy(h)
  \/ CloseArchive

Spec == Init /\ [][Next]_vars

(***************************************************************************)
(* Work on open files: the archive has been opened, the caller opens       *)
(* files, reads, seeks, duplicates and destroys them.                      *)
(***************************************************************************)
StreamFixtures == {PlainZip, DeflateZip, ClassicZip, CipherZip, HugeZip, TinyZip}

InitStream ==
  /\ file \in StreamFixtures
  /\ Let(ZIP_openArchive(file, FALSE, 0), LAMBDA a :
         /\ arch = [a EXCEPT !.mem.calls = 0, !.mem.failAt = 0]
         /\ last = Result("open", <<>>, NULL, "", a.info = "open", a.err, FALSE))
  /\ streams = [h \in 1..MaxStreams |-> None]
  /\ leaked = NoRes
  /\ threads = <<>>

NextStream ==
  \/ \E path \in file.paths : OpenRead(path)
  \/ \E h \in Handles, len \in 1..MaxRead : Read(h, len)
  \/ \E h \in Handles : \E offset \in SeekOffsets(h) : Seek(h, offset)
  \/ \E h \in Handles : Duplicate(h)
  \/ \E h \in Handles : Destroy(h)

SpecStream == InitStream /\ [][NextStream]_vars

(***************************************************************************)
(* The operations that would change an archive: the caller opens the       *)
(* archive, for reading or for writing, opens files and reads them, and    *)
(* asks for the changes.                                                   *)
(***************************************************************************)
WriteFixtures == {PlainZip, CipherZip, DirsZip}

\* The names asked for: those of the byte source and one that is not there.
WritePaths == file.paths \cup {<<"n">>}

InitWrite ==
  /\ file \in WriteFixtures
  /\ arch = NoArchive(0)
  /\ streams = [h \in 1..MaxStreams |-> None]
  /\ last = Result("none", <<>>, NULL, "", FALSE, ERR_OK, FALSE)
  /\ leaked = NoRes
  /\ threads = <<>>

Write(h, len) ==
  /\ Usable /\ streams[h] # None
  /\ LET r == ZIP_write(Clear(arch), streams[h].s, len)
     IN  /\ arch' = r.a
         /\ streams' = [streams EXCEPT ![h].s = r.s]
         /\ last' = Result("write", streams[h].path, NULL, "", r.retval # -1, r.a.err, FALSE)
  /\ UNCHANGED <<file, leaked, threads>>

OpenWrite(path) ==
  /\ Usable
  /\ LET r == ZIP_openWrite(Clear(arch), path)
     IN  /\ arch' = r.a
         /\ last' = Result("openWrite", path, NULL, "", r.retval # None, r.a.err, FALSE)
  /\ UNCHANGED <<file, streams, leaked, threads>>

OpenAppend(path) ==
  /\ Usable
  /\ LET r == ZIP_openAppend(Clear(arch), path)
     IN  /\ arch' = r.a
         /\ last' = Result("openAppend", path, NULL, "", r.retval # None, r.a.err, FALSE)
  /\ UNCHANGED <<file, streams, leaked, threads>>

Remove(path) ==
  /\ Usable
  /\ LET r == ZIP_remove(Clear(arch), path)
     IN  /\ arch' = r.a
         /\ last' = Result("remove", path, NULL, "", r.retval # 0, r.a.err, FALSE)
  /\ UNCHANGED <<file, streams, leaked, threads>>

Mkdir(path) ==
  /\ Usable
  /\ LET r == ZIP_mkdir(Clear(arch), path)
     IN  /\ arch' = r.a
         /\ last' = Result("mkdir", path, NULL, "", r.retval # 0, r.a.err, FALSE)
  /\ UNCHANGED <<file, streams, leaked, threads>>

NextWrite ==
  \/ \E w \in BOOLEAN : OpenArchive(w)
  \/ \E path \in file.paths : OpenRead(path)
  \/ \E h \in Handles, len \in 1..MaxRead : Read(h, len)
  \/ \E h \in Handles, len \in 1..MaxRead : Write(h, len)
  \/ \E path \in WritePaths : OpenWrite(path)
  \/ \E path \in WritePaths : OpenAppend(path)
  \/ \E path \in WritePaths : Remove(path)
  \/ \E path \in WritePaths : Mkdir(path)

SpecWrite == InitWrite /\ [][NextWrite]_vars

(***************************************************************************)
(* The search for the end-of-central-directory record: the byte sources    *)
(* are given by their bytes, and the caller asks for the position of the   *)
(* record or whether the byte source is an archive.                        *)
(***************************************************************************)
ScanLens == {4, 22, 26, 256, 257, 300, 508, 512, 600, 5000}

\* The bytes of a signature written at position p.
Written(sig, p) == {<<p + k - 1, sig[k]>> : k \in 1..4}

\* Positions of a byte source of length L near its ends and near the ends
\* of the chunks read.
Near(L) ==
  {p \in {0, 1, 4, L - 4, L - 22, L - 26, L - 252, L - 253, L - 256, L - 257, L - 260,
          L - 504, L - 508, L - 509, L - 4036} : 0 <= p /\ p <= L - 4}

\* Byte sources with no signature, with one, with two, with a local file
\* header first, and one with three bytes of a signature at the end of a
\* chunk and the fourth at the start of the chunk read before.
ScanSources ==
  {[len |-> L, marks |-> {}] : L \in ScanLens}
    \cup UNION {{[len |-> L, marks |-> Written(ZIP_END_OF_CENTRAL_DIR_SIG, p)] :
                   p \in Near(L)} : L \in ScanLens}
    \cup {[len |-> L, marks |-> Written(ZIP_END_OF_CENTRAL_DIR_SIG, 4)
                                  \cup Written(ZIP_END_OF_CENTRAL_DIR_SIG, L - 22)] :
            L \in {L \in ScanLens : L >= 30}}
    \cup {[len |-> L, marks |-> Written(ZIP_LOCAL_FILE_SIG, 0)
                                  \cup Written(ZIP_END_OF_CENTRAL_DIR_SIG, L - 22)] :
            L \in {L \in ScanLens : L >= 26}}
    \cup {[len |-> 300, marks |-> {<<249, 80>>, <<250, 75>>, <<251, 5>>, <<44, 6>>}]}

InitScan ==
  /\ file \in ScanSources
  /\ arch = NoArchive(0)
  /\ streams = <<>>
  /\ last = [op |-> "none", pos |-> -1, ok |-> FALSE, err |-> ERR_OK]
  /\ leaked = NoRes
  /\ threads = <<>>

FindEndOfCentralDir ==
  /\ last.op = "none"
  /\ LET r == zip_find_end_of_central_dir(file)
     IN  last' = [op |-> "find", pos |-> r.pos, ok |-> r.pos # -1, err |-> r.err]
  /\ UNCHANGED <<file, arch, streams, leaked, threads>>

IsZip ==
  /\ last.op = "none"
  /\ LET r == isZip(file)
     IN  last' = [op |-> "isZip", pos |-> -1, ok |-> r = 1, err |-> ERR_OK]
  /\ UNCHANGED <<file, arch, streams, leaked, threads>>

NextScan ==
  \/ FindEndOfCentralDir
  \/ IsZip

SpecScan == InitScan /\ [][NextScan]_vars

(***************************************************************************)
(* Calls from several threads at a time on an archive whose entries have   *)
(* all been resolved.  Each of ZIP_stat, ZIP_enumerateFiles and            *)
(* ZIP_openRead begins with zip_find_entry, which takes no lock; a thread  *)
(* runs it one statement at a time.                                        *)
(***************************************************************************)
\* The number of threads and the number of calls each of them makes.
MaxThreads == 2
MaxCalls == 1

\* Three stored files: their entries share the one bucket of the table.
RaceZip ==
  Layout(<<StoredFile(<<"a">>, <<10>>), StoredFile(<<"b">>, <<20>>),
           StoredFile(<<"l">>, <<30>>)>>,
         {<<"a">>, <<"b">>, <<"l">>},
         {})

RECURSIVE ResolveAll(_, _, _)
\* The archive after zip_resolve of the entries from i on.
ResolveAll(a, f, i) ==
  IF i > Len(a.ent) THEN a
  ELSE ResolveAll(IF a.ent[i].resolved = ZIP_DIRECTORY THEN a
                  ELSE Clear(zip_resolve(a, f, i).a), f, i + 1)

Idle == [pc |-> "idle", op |-> "none", path |-> <<>>, hashval |-> 0,
         retval |-> NULL, prev |-> NULL, calls |-> 0]

\* The names asked for: those of the entries.
RacePaths == {arch.ent[e].name : e \in 1..Len(arch.ent)}

InitRace ==
  /\ file = RaceZip
  /\ arch = ResolveAll(ZIP_openArchive(file, FALSE, 0), file, 2)
  /\ streams = <<>>
  /\ last = Result("open", <<>>, NULL, "", TRUE, ERR_OK, FALSE)
  /\ leaked = NoRes
  /\ threads = [t \in 1..MaxThreads |-> Idle]

\* A thread enters zip_find_entry: the test for the empty path, the hash
\* and the read of the bucket's head.
FindStart(t, op, path) ==
  /\ threads[t].pc = "idle" /\ threads[t].calls < MaxCalls
  /\ threads' = [threads EXCEPT ![t] =
       IF path = <<>>
       THEN [threads[t] EXCEPT !.pc = "return", !.op = op, !.retval = ROOT]
       ELSE Let(zip_hash_string(arch, path), LAMBDA hashval :
                [pc |-> "loop", op |-> op, path |-> path, hashval |-> hashval,
                 retval |-> arch.hash[hashval + 1], prev |-> NULL,
                 calls |-> threads[t].calls])]
  /\ UNCHANGED <<file, arch, streams, last, leaked>>

StatCall(t, path) == FindStart(t, "stat", path)
EnumerateCall(t, path) == FindStart(t, "enumerate", path)
OpenReadCall(t, path) == FindStart(t, "openRead", path)

\* One turn of the for loop: the test of the name, then either the way out
\* or the step to the next entry of the chain.
FindStep(t) ==
  /\ threads[t].pc = "loop"
  /\ LET th == threads[t]
     IN  threads' = [threads EXCEPT ![t] =
           IF th.retval = NULL THEN [th EXCEPT !.pc = "return"]
           ELSE IF utf8stricmp_eq(arch.ent[th.retval].name, th.path)
           THEN [th EXCEPT !.pc = IF th.prev # NULL THEN "unlink" ELSE "return"]
           ELSE [th EXCEPT !.prev = th.retval, !.retval = arch.ent[th.retval].hashnext]]
  /\ UNCHANGED <<file, arch, streams, last, leaked>>

\* prev->hashnext = retval->hashnext
MoveUnlink(t) ==
  /\ threads[t].pc = "unlink"
  /\ arch' = [arch EXCEPT !.ent[threads[t].prev].hashnext = arch.ent[threads[t].retval].hashnext]
  /\ threads' = [threads EXCEPT ![t].pc = "link"]
  /\ UNCHANGED <<file, streams, last, leaked>>

\* retval->hashnext = info->hash[hashval]
MoveLink(t) ==
  /\ threads[t].pc = "link"
  /\ arch' = [arch EXCEPT !.ent[threads[t].retval].hashnext = arch.hash[threads[t].hashval + 1]]
  /\ threads' = [threads EXCEPT ![t].pc = "front"]
  /\ UNCHANGED <<file, streams, last, leaked>>

\* info->hash[hashval] = retval
MoveFront(t) ==
  /\ threads[t].pc = "front"
  /\ arch' = [arch EXCEPT !.hash[threads[t].hashval + 1] = threads[t].retval]
  /\ threads' = [threads EXCEPT ![t].pc = "return"]
  /\ UNCHANGED <<file, streams, last, leaked>>

\* zip_find_entry returns and the caller goes on with the entry, which it
\* only reads.
Return(t) ==
  /\ threads[t].pc = "return"
  /\ last' = Result(threads[t].op, <<>>, NULL, "",
                    threads[t].retval # NULL,
                    IF threads[t].retval # NULL THEN ERR_OK ELSE ERR_NOT_FOUND, FALSE)
  /\ threads' = [threads EXCEPT ![t] = [Idle EXCEPT !.calls = threads[t].calls + 1]]
  /\ UNCHANGED <<file, arch, streams, leaked>>

NextRace ==
  \/ \E t \in 1..MaxThreads, path \in RacePaths : StatCall(t, path)
  \/ \E t \in 1..MaxThreads, path \in RacePaths : EnumerateCall(t, path)
  \/ \E t \in 1..MaxThreads, path \in RacePaths : OpenReadCall(t, path)
  \/ \E t \in 1..MaxThreads : FindStep(t)
  \/ \E t \in 1..MaxThreads : MoveUnlink(t)
  \/ \E t \in 1..MaxThreads : MoveLink(t)
  \/ \E t \in 1..MaxThreads : MoveFront(t)
  \/ \E t \in 1..MaxThreads : Return(t)

SpecRace == InitRace /\ [][NextRace]_vars

(***************************************************************************)
(* Properties of open files.                                               *)
(***************************************************************************)
Open(h) == streams[h] # None
OpenFiles == {streams[h].s : h \in {g \in Handles : Open(g)}}

\* The entry an open file reads is under the classic cipher (not AES).
Classic(s) ==
  zip_entry_is_tradional_crypto(arch.ent[s.entry]) /\ ~ZIP_IS_AES(arch.ent[s.entry])

\* seek(n); read(k) on the open file s delivers the k bytes that seek(0);
\* read(n); read(k) delivers.
SeekReadAgree(s, n, k) ==
  Let(ZIP_read(file, arch, ZIP_seek(file, arch, s, Big(n)).s, k), LAMBDA a :
  LET b0 == ZIP_seek(file, arch, s, BZero)
      b1 == ZIP_read(file, arch, b0.s, n)
  IN
  Let(ZIP_read(file, arch, b1.s, k), LAMBDA b2 :
      a.retval = k /\ b2.retval = k /\ a.buf = b2.buf))

\* C1: for every open file, at whatever position it is, and every
\* 0 <= n <= n+k <= uncompressed_size, seek(n); read(k) delivers the same
\* k bytes as seek(0); read(n); read(k).
C1_SeekIsRewindAndSkip ==
  \A s \in OpenFiles : \A n \in 0..MaxTell, k \in 0..MaxRead :
    BLe(Big(n + k), ZIP_length(arch, s)) => SeekReadAgree(s, n, k)

\* seek(uncompressed_size) on the open file s succeeds, and the reads that
\* follow deliver nothing.
SeekToEnd(s) ==
  Let(ZIP_seek(file, arch, s, ZIP_length(arch, s)), LAMBDA e :
      /\ e.retval = 1
      /\ \A len \in 1..MaxRead :
           Let(ZIP_read(file, arch, e.s, len), LAMBDA r :
               /\ r.retval = 0
               /\ \A again \in 1..MaxRead : ZIP_read(file, arch, r.s, again).retval = 0))

\* seek past the end fails with PHYSFS_ERR_PAST_EOF and changes nothing of s.
SeekPastEnd(s) ==
  Let(ZIP_seek(file, arch, s, BAddI(ZIP_length(arch, s), 1)), LAMBDA p :
      p.retval = 0 /\ p.err = ERR_PAST_EOF /\ p.s = s)

\* C2: seek accepts exactly the offsets 0..uncompressed_size; after
\* seek(uncompressed_size) every read returns 0 bytes; seek beyond the size
\* fails with PastEof and leaves position, decoder and cipher state as
\* they were.
C2_SeekRange ==
  \A s \in OpenFiles :
    /\ \A n \in 0..MaxTell :
         BLe(Big(n), ZIP_length(arch, s)) => ZIP_seek(file, arch, s, Big(n)).retval = 1
    /\ SeekToEnd(s)
    /\ SeekPastEnd(s)

\* The reads of the open files d and o deliver the same bytes.
SameReads(d, o) ==
  \A len \in 1..MaxRead :
    Let(ZIP_read(file, arch, d, len), LAMBDA rd :
    Let(ZIP_read(file, arch, o, len), LAMBDA ro :
        /\ rd.retval = ro.retval /\ rd.buf = ro.buf
        /\ \A more \in 1..MaxRead :
             Let(ZIP_read(file, arch, rd.s, more), LAMBDA rd2 :
             Let(ZIP_read(file, arch, ro.s, more), LAMBDA ro2 :
                 rd2.retval = ro2.retval /\ rd2.buf = ro2.buf))))

\* C7: the duplicate of an open file, whatever its position and the kind
\* of its entry, is at position 0 and delivers the bytes that a file
\* freshly opened by ZIP_openRead under the same name delivers.
C7_DuplicateIsFreshOpen ==
  \A h \in Handles : Open(h) =>
    Let(ZIP_duplicate(arch, streams[h].s), LAMBDA d :
    Let(ZIP_openRead(Clear(arch), file, streams[h].path).retval, LAMBDA o :
        ZIP_tell(d) = BZero /\ o # None /\ SameReads(d, o)))

\* C8: after ZIP_destroy the open file holds nothing: its byte source, its
\* decoder states, its input buffer and its records are released.
C8_DestroyReleasesAll == leaked = NoRes

(***************************************************************************)
(* Properties of the archive.                                              *)
(***************************************************************************)
\* The entries of the archive: the root and the entry blocks allocated.
Entries == {ROOT} \cup {i \in 2..Len(arch.ent) : <<"entry", i>> \in arch.mem.live}

\* The archive as ZIP_openArchive leaves it, no allocation failing.
Fresh == ZIP_openArchive(file, FALSE, 0)

OnLoop(entry) == entry # NULL /\ arch.ent[entry].name \in file.loop

\* The local headers of the links on the cycle pass zip_parse_local.
LoopIntact == \A e \in Entries : OnLoop(e) => zip_parse_local(Fresh, file, e).ok

\* C3 as stated: ZIP_openRead on an entry on a symlink cycle returns no open
\* file and the error is PHYSFS_ERR_SYMLINK_LOOP.
C3_CycleIsSymlinkLoop ==
  last.op = "openRead" /\ OnLoop(last.entry) =>
    ~last.ok /\ last.err = ERR_SYMLINK_LOOP

\* C3, amended: ZIP_openRead on an entry on a symlink cycle returns no open
\* file; the error is PHYSFS_ERR_SYMLINK_LOOP when the entry was still an
\* unresolved symlink and the cycle's local headers are valid, and
\* PHYSFS_ERR_CORRUPT when an earlier call has marked it broken.
C3_CycleFails ==
  last.op = "openRead" /\ OnLoop(last.entry) =>
    /\ ~last.ok
    /\ last.pre = ZIP_UNRESOLVED_SYMLINK /\ LoopIntact => last.err = ERR_SYMLINK_LOOP
    /\ last.pre = ZIP_BROKEN_SYMLINK => last.err = ERR_CORRUPT

C3_Witness ==
  /\ last.op = "openRead" /\ OnLoop(last.entry)
  /\ last.pre = ZIP_UNRESOLVED_SYMLINK /\ last.err = ERR_SYMLINK_LOOP

\* C4: when ZIP_openRead has returned, with an open file or with any
\* failure, no entry of the archive is in state ZIP_RESOLVING.
C4_NoEntryLeftResolving ==
  last.op = "openRead" /\ ~last.hang =>
    \A e \in Entries : arch.ent[e].resolved # ZIP_RESOLVING

\* A failure in the middle of a chain of links: the first link was found
\* unresolved, and the call failed on the byte source.
C4_Witness ==
  /\ last.op = "openRead" /\ ~last.hang /\ ~last.ok
  /\ last.pre = ZIP_UNRESOLVED_SYMLINK /\ last.err = ERR_IO
  /\ \E e \in Entries : arch.ent[e].resolved = ZIP_BROKEN_SYMLINK /\ e # last.entry

Dirs == {d \in Entries : arch.ent[d].resolved = ZIP_DIRECTORY}

\* The callbacks ZIP_enumerateFiles makes for the directory entry d.
Listing(d) == ZIP_enumerateFiles(arch, arch.ent[d].name).cb

\* The places <<d, i>> at which the listings of the directories show entry e.
Shown(e) ==
  {p \in UNION {{<<d, i>> : i \in DOMAIN Listing(d)} : d \in Dirs} :
     Listing(p[1])[p[2]].entry = e}

\* The name up to the last '/', and the name after it.
DirName(name) == SubSeq(name, 1, strrchr(name, "/", Len(name)) - 1)
BaseName(name) == SubSeq(name, strrchr(name, "/", Len(name)) + 1, Len(name))

\* C5: in an open archive, whatever calls were made since, the listings of
\* the directories show every entry but the root exactly once, under the
\* directory its name gives up to the last '/', and show nothing else.
C5_EnumerateShowsEachEntryOnce ==
  arch.info = "open" =>
    /\ \A e \in Entries \ {ROOT} :
         /\ Cardinality(Shown(e)) = 1
         /\ \A p \in Shown(e) :
              /\ utf8stricmp_eq(arch.ent[p[1]].name, DirName(arch.ent[e].name))
              /\ Listing(p[1])[p[2]].fname = BaseName(arch.ent[e].name)
    /\ \A d \in Dirs : \A i \in DOMAIN Listing(d) :
         Listing(d)[i].entry \in Entries \ {ROOT}

\* A directory below the root has been listed, in an archive in which
\* ZIP_openRead has resolved an entry or found a link broken.
C5_Witness ==
  /\ last.op = "enumerate" /\ last.ok /\ last.path # <<>>
  /\ \E e \in Entries : arch.ent[e].resolved \in {ZIP_RESOLVED, ZIP_BROKEN_SYMLINK}

\* The kind ZIP_stat is to report for entry e: that of the entry as loaded.
KindOf(e) ==
  Let(Fresh.ent[e].resolved, LAMBDA r :
      IF r = ZIP_DIRECTORY THEN PHYSFS_FILETYPE_DIRECTORY
      ELSE IF r = ZIP_UNRESOLVED_SYMLINK THEN PHYSFS_FILETYPE_SYMLINK
      ELSE PHYSFS_FILETYPE_REGULAR)

\* C6: for every entry, resolved or not, broken or not, ZIP_stat of its name
\* succeeds, reports readonly, the kind the entry was loaded with, and the
\* uncompressed size for a regular file and 0 for a directory or a symlink.
C6_StatIsStable ==
  Usable =>
    \A e \in Entries :
      Let(ZIP_stat(arch, arch.ent[e].name), LAMBDA r :
          /\ r.retval = 1
          /\ r.stat.readonly = 1
          /\ r.stat.filetype = KindOf(e)
          /\ r.stat.filesize = IF KindOf(e) = PHYSFS_FILETYPE_REGULAR
                               THEN arch.ent[e].uncompressed_size ELSE BZero)

\* ZIP_stat was called on a symlink that ZIP_openRead has resolved.
C6_Witness ==
  /\ last.op = "stat" /\ last.ok
  /\ \E e \in Entries : /\ arch.ent[e].name = last.path
                         /\ arch.ent[e].symlink # NULL
                         /\ arch.ent[e].resolved = ZIP_RESOLVED

\* C9: when ZIP_openArchive fails, at whatever step, it returns NULL, every
\* entry and table it allocated is freed, and the caller's byte source has
\* not been destroyed.
C9_FailedOpenFreesAll ==
  last.op = "open" /\ ~last.ok =>
    arch.info # "open" /\ arch.mem.live = {} /\ arch.io = "caller"

\* The entry whose data an open file on entry e reads.
DataEntry(e) == IF arch.ent[e].symlink # NULL THEN arch.ent[e].symlink ELSE e

ClassicEntry(e) ==
  zip_entry_is_tradional_crypto(arch.ent[e]) /\ ~ZIP_IS_AES(arch.ent[e])

\* The 12-byte header of entry e passes the verifier check with the password.
Verifies(e, password) ==
  zip_prep_crypto_keys(arch, [ZeroFinfo EXCEPT !.entry = e],
                       IoRead(file, arch.ent[e].offset, 12), password).ok

\* C10: when the exact lookup of the path misses and has_crypto is set, the
\* text before the last '$' is looked up and the text after it is the
\* password.  An entry under the classic cipher yields an open file only
\* with a password given this way that passes the header check; a wrong or
\* missing password on such an entry, and a password given for an entry
\* that is not encrypted, fail with PHYSFS_ERR_BAD_PASSWORD.
C10_PasswordConvention ==
  last.op = "openRead" =>
    Let(strrchr(last.path, "$", Len(last.path)), LAMBDA ptr :
    Let(/\ zip_find_entry(arch, last.path).retval = NULL
        /\ arch.has_crypto /\ ptr # 0, LAMBDA retry :
    LET key == IF retry THEN SubSeq(last.path, 1, ptr - 1) ELSE last.path
    IN
    Let(SubSeq(last.path, ptr + 1, Len(last.path)), LAMBDA password :
    LET e == last.entry
    IN
        /\ e = zip_find_entry(arch, key).retval
        /\ last.password = retry
        /\ e # NULL /\ last.ok /\ ClassicEntry(DataEntry(e)) =>
             retry /\ Verifies(DataEntry(e), password)
        /\ e # NULL /\ ClassicEntry(e) /\ (~retry \/ ~Verifies(e, password)) =>
             ~last.ok /\ last.err = ERR_BAD_PASSWORD
        /\ e # NULL /\ ~zip_entry_is_tradional_crypto(arch.ent[e]) /\ retry =>
             ~last.ok /\ last.err = ERR_BAD_PASSWORD)))

Broken == {ZIP_BROKEN_FILE, ZIP_BROKEN_SYMLINK}

\* The broken state that belongs to an entry found in state `resolved`.
BrokenOf(resolved) ==
  IF resolved \in {ZIP_UNRESOLVED_SYMLINK, ZIP_BROKEN_SYMLINK}
  THEN ZIP_BROKEN_SYMLINK ELSE ZIP_BROKEN_FILE

\* ZIP_openRead by the entry's own name fails with PHYSFS_ERR_CORRUPT and
\* changes no entry's offset and no entry's state.
FailsFast(e) ==
  Let(ZIP_openRead(Clear(arch), file, arch.ent[e].name), LAMBDA o :
      /\ ~o.hang /\ o.retval = None /\ o.a.err = ERR_CORRUPT
      /\ \A i \in Entries : /\ o.a.ent[i].offset = arch.ent[i].offset
                            /\ o.a.ent[i].resolved = arch.ent[i].resolved)

\* C11: when resolving an entry fails, the entry is marked ZIP_BROKEN_FILE
\* (a file) or ZIP_BROKEN_SYMLINK (a symlink), and every later ZIP_openRead
\* of it fails with PHYSFS_ERR_CORRUPT, its local header not parsed again
\* and its offset unchanged.
C11_FailedResolveIsRemembered ==
  arch.info = "open" /\ ~last.hang =>
    /\ \A e \in Entries \ {ROOT} :
         Let(zip_resolve(arch, file, e), LAMBDA r :
             /\ ~r.hang /\ ~r.ok =>
                  r.a.ent[e].resolved = BrokenOf(arch.ent[e].resolved)
             /\ arch.ent[e].resolved \in Broken => ~r.ok /\ FailsFast(e))
    /\ last.op = "openRead" /\ last.entry # NULL /\ last.pre \notin Broken
         /\ arch.ent[last.entry].resolved \in Broken =>
           ~last.ok /\ arch.ent[last.entry].resolved = BrokenOf(last.pre)
    /\ last.op = "openRead" /\ last.entry # NULL /\ last.pre \in Broken =>
         ~last.ok /\ last.err = ERR_CORRUPT /\ arch.ent[last.entry].resolved = last.pre

\* A file's resolution failed on its local header, and a later ZIP_openRead
\* of it was made.
C11_Witness ==
  /\ last.op = "openRead" /\ last.entry # NULL
  /\ last.pre = ZIP_BROKEN_FILE /\ last.err = ERR_CORRUPT
  /\ \E e \in Entries : arch.ent[e].resolved = ZIP_BROKEN_SYMLINK

\* The moves of one entry's state over one call of the archiver: from an
\* unresolved state through ZIP_RESOLVING to resolved or broken, of its own
\* kind; the other states are kept, and a resolved entry keeps its offset.
MovesOneWay(pre, post) ==
  /\ pre.resolved = ZIP_UNRESOLVED_FILE =>
       post.resolved \in {ZIP_UNRESOLVED_FILE, ZIP_RESOLVING, ZIP_RESOLVED, ZIP_BROKEN_FILE}
  /\ pre.resolved = ZIP_UNRESOLVED_SYMLINK =>
       post.resolved \in {ZIP_UNRESOLVED_SYMLINK, ZIP_RESOLVING, ZIP_RESOLVED,
                          ZIP_BROKEN_SYMLINK}
  /\ pre.resolved = ZIP_RESOLVING => last.hang /\ post.resolved = ZIP_RESOLVING
  /\ pre.resolved \in {ZIP_RESOLVED, ZIP_BROKEN_FILE, ZIP_BROKEN_SYMLINK, ZIP_DIRECTORY} =>
       post.resolved = pre.resolved
  /\ pre.resolved = ZIP_RESOLVED => post.offset = pre.offset

\* C12: over any sequence of calls an entry's state only moves from
\* unresolved, through ZIP_RESOLVING, to resolved or broken (of its kind);
\* resolved, broken and directory states are never left, an unresolved state
\* is never entered again, and a resolved entry's offset never changes.
C12_ResolutionIsOneWay ==
  [][arch.info = "open" /\ arch'.info = "open" =>
       /\ DOMAIN arch'.ent = DOMAIN arch.ent
       /\ \A e \in DOMAIN arch.ent : MovesOneWay(arch.ent[e], arch'.ent[e])]_vars

\* ZIP_openRead was called on an entry that an earlier call had resolved.
C12_Witness ==
  /\ last.op = "openRead" /\ last.entry # NULL /\ last.ok
  /\ last.pre = ZIP_RESOLVED
  /\ \E e \in Entries : arch.ent[e].resolved = ZIP_RESOLVED /\ arch.ent[e].symlink # NULL

\* The name a central-directory record's entry gets: the stored name less a
\* '/' at its end.
RecName(rec) ==
  IF rec.name # <<>> /\ rec.name[Len(rec.name)] = "/"
  THEN SubSeq(rec.name, 1, Len(rec.name) - 1) ELSE rec.name

\* Two records of the central directory have names that are equal when
\* case is ignored.
Twice(f) ==
  \E j \in 1..Len(f.cd) : \E i \in 1..(j - 1) :
    utf8stricmp_eq(RecName(f.cd[i]), RecName(f.cd[j]))

\* C13: in an open archive no two entries, listed or made as ancestors,
\* have names equal when case is ignored; a central directory with two
\* records of such names makes ZIP_openArchive fail with PHYSFS_ERR_CORRUPT,
\* while a record named like a directory made for an earlier record's
\* path fills that entry in.
C13_NamesUnique ==
  /\ arch.info = "open" =>
       \A d \in Entries, e \in Entries :
         d # e => ~utf8stricmp_eq(arch.ent[d].name, arch.ent[e].name)
  /\ last.op = "open" /\ Twice(file) => ~last.ok
  /\ last.op = "open" /\ Twice(file)
       /\ last.err \notin {ERR_OUT_OF_MEMORY, ERR_READ_ONLY} =>
         last.err = ERR_CORRUPT
  /\ last.op = "open" /\ file = FilledZip
       /\ last.err \notin {ERR_OUT_OF_MEMORY, ERR_READ_ONLY} =>
         last.ok /\ Cardinality(Entries) = 3

\* ZIP_openArchive has rejected a central directory that lists a directory
\* a second time after an earlier record had filled it in.
C13_Witness ==
  /\ last.op = "open" /\ ~last.ok /\ last.err = ERR_CORRUPT
  /\ file = ThriceZip

\* C14: in an open archive every entry that is a directory, whether listed,
\* made as an ancestor, or made as an ancestor and filled in by a later
\* record of its name, has compressed and uncompressed size 0 and is stored.
C14_DirectoriesAreEmpty ==
  arch.info = "open" =>
    \A e \in Entries :
      arch.ent[e].resolved = ZIP_DIRECTORY =>
        /\ arch.ent[e].compressed_size = BZero
        /\ arch.ent[e].uncompressed_size = BZero
        /\ arch.ent[e].compression_method = COMPMETH_NONE

\* The byte source f with P bytes put before it: every record lies P
\* further on and records the offsets it recorded.  The end-of-central-
\* directory signature, now past position 0, is found.
MaxPrepend == 20
Prepend(f, P) ==
  [f EXCEPT !.isZip = TRUE,
            !.len = BAddI(@, P),
            !.image = [k \in 1..P |-> Filler(Big(k - 1))] \o @,
            !.locals = [i \in 1..Len(f.locals) |->
                          [pos |-> f.locals[i].pos + P, hdr |-> f.locals[i].hdr]],
            !.cdpos = BAddI(@, P),
            !.eocd.pos = BAddI(@, P)]

\* A byte source without ZIP64 records whose central directory ends where
\* the end-of-central-directory record begins.
ClassicSource(f) ==
  /\ f.eocd # None /\ f.eocd.sig /\ f.eocd.z64 = None
  /\ BAdd(f.eocd.cdofs, f.eocd.cdsize) = f.eocd.pos
  /\ f.isZip \/ f.eocd.pos = BZero

\* What a caller sees of ZIP_openRead of a name and of a first ZIP_read.
Opened(a, f, path) ==
  Let(ZIP_openRead(Clear(a), f, path), LAMBDA o :
      IF o.retval = None THEN <<o.hang, o.a.err>>
      ELSE <<ZIP_read(f, o.a, o.retval, MaxRead).buf,
             [i \in 1..Len(o.a.ent) |-> o.a.ent[i].resolved]>>)

\* The archives a and b are the same but for the offsets, which lie P
\* further on in b.
SameBut(a, b, P) ==
  /\ b.info = a.info /\ b.err = a.err /\ b.hash = a.hash
  /\ Len(b.ent) = Len(a.ent) /\ b.mem.live = a.mem.live
  /\ \A i \in 2..Len(a.ent) :
       <<"entry", i>> \in a.mem.live =>
         /\ b.ent[i].offset = (IF a.ent[i].last_mod_time = BZero THEN BZero
                               ELSE BAddI(a.ent[i].offset, P))
         /\ [b.ent[i] EXCEPT !.offset = BZero] = [a.ent[i] EXCEPT !.offset = BZero]

\* C15: putting P bytes before a byte source without ZIP64 records, whose
\* central directory ends where the end-of-central-directory record
\* begins, changes nothing a caller sees: ZIP_openArchive gives the same
\* entries with every offset P further on, and ZIP_stat,
\* ZIP_enumerateFiles, ZIP_openRead and ZIP_read give what they gave.
C15_PrependedDataIsInvisible ==
  ClassicSource(file) =>
    \A P \in {1, MaxPrepend} :
      Let(ZIP_openArchive(Prepend(file, P), FALSE, 0), LAMBDA b :
          /\ SameBut(Fresh, b, P)
          /\ Fresh.info = "open" =>
               \A path \in file.paths :
                 /\ ZIP_stat(b, path).stat = ZIP_stat(Fresh, path).stat
                 /\ ZIP_enumerateFiles(b, path).cb = ZIP_enumerateFiles(Fresh, path).cb
                 /\ Opened(b, Prepend(file, P), path) = Opened(Fresh, file, path))

\* A step of one of the operations that would change the archive.
Changing ==
  \/ \E h \in Handles, len \in 1..MaxRead : Write(h, len)
  \/ \E path \in WritePaths : OpenWrite(path) \/ OpenAppend(path)
  \/ \E path \in WritePaths : Remove(path) \/ Mkdir(path)

\* C17: ZIP_openWrite, ZIP_openAppend, ZIP_remove, ZIP_mkdir, ZIP_write on
\* an open file and ZIP_openArchive for writing fail with
\* PHYSFS_ERR_READ_ONLY, whatever the name and the state of the archive,
\* and leave the archive, its entries and the open files as they were.
C17_ReadOnly ==
  [][/\ Changing =>
          /\ ~last'.ok /\ last'.err = ERR_READ_ONLY
          /\ Clear(arch') = Clear(arch) /\ streams' = streams /\ leaked' = leaked
     /\ OpenArchive(TRUE) =>
          /\ ~last'.ok /\ last'.err = ERR_READ_ONLY
          /\ arch'.info = "none" /\ arch'.ent = <<>> /\ arch'.mem.live = {}
          /\ arch'.io = "caller" /\ streams' = streams]_vars

\* ZIP_write was called on a file that had been read from, in an archive
\* with a resolved entry.
C17_Witness ==
  /\ last.op = "write" /\ ~last.ok
  /\ \E h \in Handles : streams[h] # None /\ ZIP_tell(streams[h].s) # BZero
  /\ \E e \in Entries : arch.ent[e].resolved = ZIP_RESOLVED

\* C18: in an open archive no entry's name begins or ends with '/'; a
\* record whose stored name ends with '/' gives a directory entry named
\* without it.
C18_NoSlashAtEnds ==
  arch.info = "open" =>
    /\ \A e \in Entries \ {ROOT} :
         Let(arch.ent[e].name, LAMBDA name :
             name # <<>> /\ name[1] # "/" /\ name[Len(name)] # "/")
    /\ \A i \in 1..Len(file.cd) :
         file.cd[i].name[Len(file.cd[i].name)] = "/" =>
           \E e \in Entries : /\ arch.ent[e].name = RecName(file.cd[i])
                              /\ arch.ent[e].resolved = ZIP_DIRECTORY

\* C20: for every byte source with a ZIP64 locator, the position where
\* zip64_find_end_of_central_dir finds the ZIP64 end-of-central-directory
\* record, by whichever of its four tries, is not before the offset the
\* locator records: the assertion pos >= offset of
\* zip64_parse_end_of_central_dir holds.
C20_RecordNotBeforeOffset ==
  last.op = "open" /\ last.err \notin {ERR_OUT_OF_MEMORY, ERR_READ_ONLY} =>
    /\ file.eocd # None /\ file.eocd.z64 # None =>
         Let(zip64_find_end_of_central_dir(file, BSub(file.eocd.pos, Big(20)),
                                           file.eocd.z64.ofs), LAMBDA pos :
             pos # BNone => BLe(file.eocd.z64.ofs, pos))
    /\ last.err # "ASSERT"

\* The positions of a byte source that hold the end-of-central-directory
\* signature.
SigAt(io) ==
  {m[1] : m \in {m \in io.marks :
     \A k \in 1..4 : ByteAt(io, m[1] + k - 1) = ZIP_END_OF_CENTRAL_DIR_SIG[k]}}

\* Those of them that lie whole in the byte source and in its last
\* ScanLimit bytes.
InTail(io) ==
  {p \in SigAt(io) : p + 4 <= io.len /\ p >= io.len - ScanLimit}

\* C19: for every byte source, zip_find_end_of_central_dir returns the
\* greatest position in the last 65,557 bytes that holds the bytes
\* 50 4B 05 06, also when the four bytes lie across two chunks read one
\* after the other, and fails only when no position holds them.
C19_FindsLastSignature ==
  last.op = "find" =>
    IF InTail(file) = {} THEN SigAt(file) = {} => last.pos = -1
    ELSE last.pos = CHOOSE p \in InTail(file) : \A q \in InTail(file) : q <= p

RECURSIVE OnChain(_, _, _, _)
\* Entry e is met within n steps on the chain that begins with entry c.
OnChain(a, c, e, n) ==
  IF c = NULL \/ n = 0 THEN FALSE
  ELSE c = e \/ OnChain(a, a.ent[c].hashnext, e, n - 1)

RECURSIVE Ends(_, _, _)
\* The chain that begins with entry c ends within n steps.
Ends(a, c, n) ==
  IF c = NULL THEN TRUE
  ELSE IF n = 0 THEN FALSE
  ELSE Ends(a, a.ent[c].hashnext, n - 1)

\* Every bucket's chain ends and every entry is on the chain of the bucket
\* its name hashes to.
ChainsIntact ==
  /\ \A b \in 1..arch.hashBuckets : Ends(arch, arch.hash[b], Len(arch.ent))
  /\ \A e \in Entries \ {ROOT} :
       OnChain(arch, arch.hash[zip_hash_string(arch, arch.ent[e].name) + 1], e, Len(arch.ent))

\* C16: once the entries are resolved, ZIP_stat, ZIP_enumerateFiles and
\* ZIP_openRead called from several threads at a time change nothing of
\* the archive or its entries, the links of the hash chains included, so
\* that, when the calls have returned, every chain is whole and every
\* entry is on its chain.
C16_LookupsShareNothing ==
  /\ [][arch' = arch]_vars
  /\ []((\A t \in 1..MaxThreads : threads[t].pc = "idle") => ChainsIntact)

(***************************************************************************)
(* What a resolution may change.                                           *)
(***************************************************************************)
\* An entry without the fields a resolution writes: resolved, offset, the
\* salt and the verifier, symlink; and, when links is set, the hash link.
Unwritten(e, links) ==
  [e EXCEPT !.resolved = ZIP_UNRESOLVED_FILE, !.offset = BZero,
            !.aes_data.salt = <<>>, !.aes_data.pass_verification = 0,
            !.symlink = NULL,
            !.hashnext = IF links THEN NULL ELSE @]

\* The entries on the chain of bucket b of archive a.
Bucket(a, b) == {e \in 1..Len(a.ent) : OnChain(a, a.hash[b], e, Len(a.ent))}

\* Archive b is archive a after a resolution of entry e that returned ok,
\* as far as the frame goes: nothing but the fields a resolution writes
\* differs, and those only in e and in the entries the links lead to.  With
\* links set the order of the hash chains is left out of the comparison,
\* though not the entries each chain holds.
ResolveFrame(a, b, e, ok, links) ==
  /\ b.info = a.info /\ b.io = a.io /\ b.hashBuckets = a.hashBuckets
  /\ b.has_crypto = a.has_crypto /\ b.zip64 = a.zip64
  /\ b.mem.live = a.mem.live /\ Len(b.ent) = Len(a.ent)
  /\ \A i \in 1..Len(a.ent) :
       /\ Unwritten(b.ent[i], links) = Unwritten(a.ent[i], links)
       /\ a.ent[i].resolved \notin {ZIP_UNRESOLVED_FILE, ZIP_UNRESOLVED_SYMLINK}
            => [b.ent[i] EXCEPT !.hashnext = NULL] = [a.ent[i] EXCEPT !.hashnext = NULL]
       /\ (i # e /\ [b.ent[i] EXCEPT !.hashnext = NULL] # [a.ent[i] EXCEPT !.hashnext = NULL])
            => IF ok
               THEN b.ent[e].symlink # NULL
                    /\ (i = b.ent[e].symlink \/ b.ent[i].symlink = b.ent[e].symlink)
               ELSE b.ent[i].resolved \in {ZIP_BROKEN_FILE, ZIP_BROKEN_SYMLINK}
  /\ IF links
     THEN \A h \in 1..a.hashBuckets :
            Bucket(b, h) = Bucket(a, h) /\ Ends(b, b.hash[h], Len(b.ent))
     ELSE b.hash = a.hash

Resolvable ==
  {e \in Entries \ {ROOT} :
     arch.ent[e].resolved \in {ZIP_UNRESOLVED_FILE, ZIP_UNRESOLVED_SYMLINK}}

\* C21 as stated: the resolution of an entry changes nothing of the archive
\* but resolved, offset, salt, verifier and symlink of the entry and of the
\* entries its links lead to; the hash chains are as they were.
C21_ResolveLeavesLinks ==
  Usable =>
    \A e \in Resolvable :
      Let(zip_resolve(arch, file, e), LAMBDA r :
          r.hang \/ ResolveFrame(arch, r.a, e, r.ok, FALSE))

\* C21: the resolution of an entry changes nothing of the archive but
\* resolved, offset, salt, verifier and symlink of the entry and of the
\* entries its links lead to, and the order of the hash chains, on which
\* zip_find_entry moves each link's target to the front: every chain
\* holds the entries it held, and ends.
C21_ResolveFrame ==
  Usable =>
    \A e \in Resolvable :
      Let(zip_resolve(arch, file, e), LAMBDA r :
          r.hang \/ ResolveFrame(arch, r.a, e, r.ok, TRUE))

\* A link has been resolved by ZIP_openRead, and its target is no link.
C21_Witness ==
  /\ last.op = "openRead" /\ last.ok /\ last.pre = ZIP_UNRESOLVED_SYMLINK
  /\ last.entry # NULL /\ arch.ent[last.entry].symlink # NULL
  /\ arch.ent[last.entry].resolved = ZIP_RESOLVED

\* C22: the resolution of an entry comes to an end, whatever the target of
\* a link holds: zip_expand_symlink_path returns, and the links are
\* followed to an entry that is no link or to a failure.
C22_ResolutionEnds ==
  Usable =>
    \A e \in Resolvable : ~zip_resolve(Clear(arch), file, e).hang

\* The name zip_follow_symlink looks up for the stored link e, once its
\* local header is parsed: the bytes of the link, their separators
\* converted, after zip_expand_symlink_path.  None when there is none.
TargetOf(e) ==
  Let(zip_parse_local(arch, file, e), LAMBDA p :
  LET size == BInt(arch.ent[e].uncompressed_size)
  IN
  Let(IoRead(file, p.a.ent[e].offset, size), LAMBDA raw :
  IF ~p.ok \/ arch.ent[e].compression_method # COMPMETH_NONE \/ Len(raw) # size
  THEN None
  ELSE Let(zip_expand_symlink_path(
             zip_convert_dos_path(arch.ent[e].version,
                                  [i \in 1..(size + 1) |->
                                     IF i = size + 1 THEN Nul ELSE Chr(raw[i])])),
           LAMBDA x : IF x.hang THEN None ELSE CStr(x.buf, 1))))

\* C23: a link whose target zip_expand_symlink_path cuts to the empty
\* string is not resolved: the lookup of the target fails with
\* PHYSFS_ERR_NOT_FOUND, the link becomes ZIP_BROKEN_SYMLINK and its symlink
\* field stays NULL.
C23_EmptyTargetIsNotFound ==
  Usable =>
    \A e \in Entries \ {ROOT} :
      (arch.ent[e].resolved = ZIP_UNRESOLVED_SYMLINK /\ TargetOf(e) = <<>>) =>
        Let(zip_resolve(Clear(arch), file, e), LAMBDA r :
            /\ ~r.ok /\ r.a.err = ERR_NOT_FOUND
            /\ r.a.ent[e].resolved = ZIP_BROKEN_SYMLINK
            /\ r.a.ent[e].symlink = NULL)

\* The links of archive a that are resolved.
Links(a) ==
  {e \in 2..Len(a.ent) : a.ent[e].resolved = ZIP_RESOLVED /\ a.ent[e].symlink # NULL}

\* The entry a resolved link of archive a leads to is no link, and is
\* resolved or a directory.
Collapsed(a) ==
  \A e \in Links(a) :
    /\ a.ent[a.ent[e].symlink].symlink = NULL
    /\ a.ent[a.ent[e].symlink].resolved \in {ZIP_RESOLVED, ZIP_DIRECTORY}

\* C24: a resolved link's symlink field is an entry that is no link and is
\* ZIP_RESOLVED or ZIP_DIRECTORY, however many links lie between, and the
\* open file ZIP_openRead returns for the link is one over that entry: at
\* its offset, of its length, and read as its compression says.
C24_LinksCollapse ==
  Usable =>
    /\ Collapsed(arch)
    /\ \A path \in file.paths :
         Let(ZIP_openRead(Clear(arch), file, path), LAMBDA o :
           (~o.hang /\ o.retval # None /\ o.entry \in Links(o.a)) =>
             Let(o.a.ent[o.entry].symlink, LAMBDA t :
               /\ Collapsed(o.a)
               /\ o.retval.entry = t
               /\ o.retval.io = o.a.ent[t].offset
               /\ o.retval.buffer = (o.a.ent[t].compression_method # COMPMETH_NONE)
               /\ ZIP_length(o.a, o.retval) = o.a.ent[t].uncompressed_size
               /\ (o.a.ent[t].compression_method = COMPMETH_NONE
                   /\ ~zip_entry_is_tradional_crypto(o.a.ent[t]))
                    => ZIP_read(file, o.a, o.retval, MaxRead).buf
                         = IoRead(file, o.a.ent[t].offset,
                                  Min(MaxRead, BInt(o.a.ent[t].uncompressed_size)))))

\* The bytes of the resolved, stored link e, as characters.
LinkBytes(e) ==
  Let(IoRead(file, arch.ent[e].offset, BInt(arch.ent[e].uncompressed_size)), LAMBDA raw :
      [i \in 1..Len(raw) |-> Chr(raw[i])])

\* ZIP_openRead has opened a link that names a link, and the open file is
\* over the file at the end of the two.
C24_Witness ==
  /\ last.op = "openRead" /\ last.ok /\ last.entry \in Links(arch)
  /\ \E h \in Handles :
       /\ streams[h] # None /\ streams[h].path = last.path
       /\ streams[h].s.entry = arch.ent[last.entry].symlink
  /\ \E w \in Links(arch) \ {last.entry} :
       /\ LinkBytes(last.entry) = arch.ent[w].name
       /\ arch.ent[w].symlink = arch.ent[last.entry].symlink

\* C25: the resolution of an entry under AES of 128, 192 or 256 bits, when
\* it succeeds, has read the salt and the two bytes of the password
\* verifier that follow the local header, and leaves the offset behind
\* them: 30 + fnamelen + extralen + 8, 12 or 16 + 2 past the header.
C25_AesOffset ==
  Usable =>
    \A e \in Resolvable :
      arch.ent[e].aes_data.key_strength
          \in {ZIP_AES_128_BITS, ZIP_AES_192_BITS, ZIP_AES_256_BITS} =>
        Let(zip_resolve(Clear(arch), file, e), LAMBDA r :
        Let(AesSaltLen(arch.ent[e].aes_data.key_strength), LAMBDA n :
          r.ok =>
            Let(LocalAt(file, arch.ent[e].offset), LAMBDA h :
            Let(BAddI(arch.ent[e].offset, 30 + h.fnamelen + h.extralen), LAMBDA data :
            Let(IoRead(file, data, n + 2), LAMBDA raw :
                /\ r.a.ent[e].offset = BAddI(data, n + 2)
                /\ Len(raw) = n + 2
                /\ r.a.ent[e].aes_data.salt = SubSeq(raw, 1, n)
                /\ r.a.ent[e].aes_data.pass_verification
                     = raw[n + 1] + (U8 * raw[n + 2]))))))

RECURSIVE ChainFrom(_, _, _)
\* The entries of the chain that begins with entry c, in order, n at most.
ChainFrom(a, c, n) ==
  IF c = NULL \/ n = 0 THEN <<>>
  ELSE <<c>> \o ChainFrom(a, a.ent[c].hashnext, n - 1)

\* The chain of bucket b of archive a (b counted from 1).
Chain(a, b) == ChainFrom(a, a.hash[b], Len(a.ent) + 1)

\* Archive a without the links of its hash chains and its error code.
Unlinked(a) ==
  [a EXCEPT !.hash = <<>>, !.err = ERR_OK,
            !.ent = [i \in 1..Len(a.ent) |-> [a.ent[i] EXCEPT !.hashnext = NULL]]]

\* Every live entry of archive a but the root is on exactly one chain,
\* exactly once, and every chain ends.
OncePerEntry(a) ==
  /\ \A b \in 1..a.hashBuckets : Ends(a, a.hash[b], Len(a.ent))
  /\ \A e \in 2..Len(a.ent) :
       <<"entry", e>> \in a.mem.live =>
         Cardinality({<<b, i>> \in (1..a.hashBuckets) \X (1..Len(a.ent)) :
                        i <= Len(Chain(a, b)) /\ Chain(a, b)[i] = e}) = 1

\* The names looked up: the fixture's paths and the entries' names.
Lookups == file.paths \cup {arch.ent[e].name : e \in Entries \ {ROOT}}

\* C26: a hit of zip_find_entry moves the entry found to the front of its
\* chain and changes nothing else: the other entries of the chain keep
\* their order, the other chains and all other fields are as they were;
\* and after ZIP_openArchive and any lookups every entry is on exactly one
\* chain exactly once, and every chain ends.
C26_MoveToFront ==
  Usable =>
    /\ OncePerEntry(arch)
    /\ \A path \in Lookups :
         Let(zip_find_entry(arch, path), LAMBDA r :
           IF r.retval = NULL THEN r.a = SetErr(arch, ERR_NOT_FOUND)
           ELSE IF r.retval = ROOT THEN r.a = arch
           ELSE
             Let(zip_hash_string(arch, path) + 1, LAMBDA b :
               /\ Unlinked(r.a) = Unlinked(arch) /\ r.a.err = arch.err
               /\ Chain(r.a, b)
                    = <<r.retval>> \o SelectSeq(Chain(arch, b), LAMBDA x : x # r.retval)
               /\ \A c \in 1..arch.hashBuckets : c # b => Chain(r.a, c) = Chain(arch, c)
               /\ OncePerEntry(r.a)))

\* A lookup has hit, and a chain of two entries or more is no longer in the
\* order ZIP_openArchive left it in.
C26_Witness ==
  /\ Usable /\ last.op \in {"stat", "openRead"} /\ last.ok
  /\ \E b \in 1..arch.hashBuckets :
       /\ Len(Chain(arch, b)) >= 2
       /\ Chain(arch, b) # Chain(Fresh, b)

\* The open file s over the entry t of archive a has read the 12 bytes of
\* t's encryption header and holds the keys that the password leaves after
\* them, the header's last byte passing the check.
Keyed(a, s, t, password) ==
  Let(zip_prep_crypto_keys(a, [ZeroFinfo EXCEPT !.entry = t],
                           IoRead(file, a.ent[t].offset, 12), password), LAMBDA k :
      /\ k.ok
      /\ s.io = BAddI(a.ent[t].offset, 12)
      /\ s.crypto_keys = k.s.crypto_keys
      /\ s.initial_crypto_keys = k.s.crypto_keys)

\* C27: every open file that ZIP_openRead returns over an entry under the
\* classic cipher, the name given being that entry's or a link's to it,
\* has read the entry's 12-byte encryption header and holds the keys of a
\* password that passed the check of the header.
C27_ClassicStreamsAreKeyed ==
  Usable =>
    \A path \in file.paths :
      Let(ZIP_openRead(Clear(arch), file, path), LAMBDA o :
        (~o.hang /\ o.retval # None
           /\ zip_entry_is_tradional_crypto(o.a.ent[o.retval.entry])
           /\ ~ZIP_IS_AES(o.a.ent[o.retval.entry])) =>
          /\ o.password
          /\ Keyed(o.a, o.retval, o.retval.entry,
                   SubSeq(path, strrchr(path, "$", Len(path)) + 1, Len(path))))

\* C28: after a ZIP_seek that succeeds ZIP_tell returns the offset sought,
\* for every offset from 0 to the entry's uncompressed size, sizes of 4 GiB
\* and more included.
C28_TellAfterSeek ==
  \A h \in Handles : Open(h) =>
    \A offset \in SeekOffsets(h) :
      Let(ZIP_seek(file, arch, streams[h].s, offset), LAMBDA r :
          r.retval = 1 => ZIP_tell(r.s) = offset)

\* The bytes of the byte source that the next refill of the open file s
\* asks for, s having bytes left to deliver and none left to decode, lie
\* within the compressed data of its entry: ZIP_read asks
\* zip_read_decrypt for up to ZIP_READBUFSIZE of the bytes not yet counted
\* in compressed_position, from where the byte source of s stands.
RefillWithin(s) ==
  LET entry == arch.ent[s.entry]
  IN
  Let(BSub(entry.compressed_size, s.compressed_position), LAMBDA left :
  LET br == IF BLt(Big(ReadBufSize), left) THEN ReadBufSize ELSE BInt(left)
  IN
    (/\ BLt(s.uncompressed_position, entry.uncompressed_size)
     /\ s.stream.in = <<>> /\ BLt(s.compressed_position, entry.compressed_size)) =>
      /\ BLe(entry.offset, s.io)
      /\ BLe(BAddI(s.io, br), BAdd(entry.offset, entry.compressed_size)))

\* C29: an open file over a compressed entry, after whatever reads and
\* seeks, asks its byte source for no byte outside the entry's compressed
\* data, from offset up to offset + compressed_size, the 12 bytes of the
\* encryption header of an entry under the classic cipher included in the
\* size.
C29_DeflateReadsWithinEntry ==
  \A h \in Handles :
    (Open(h) /\ arch.ent[streams[h].s.entry].compression_method # COMPMETH_NONE) =>
      RefillWithin(streams[h].s)

\* C30: ZIP_openRead on a name that zip_find_entry finds to be a directory
\* (one listed in the archive, one made for the files below it, or the
\* root) returns no open file.
C30_DirectoriesDoNotOpen ==
  Usable =>
    \A path \in file.paths :
      Let(zip_find_entry(arch, path).retval, LAMBDA e :
        (e # NULL /\ arch.ent[e].resolved = ZIP_DIRECTORY) =>
          ZIP_openRead(Clear(arch), file, path).retval = None)

====
